---- MODULE Spec2Model ----
(***************************************************************************)
(* A model of the Kademlia overlay engine of package network (dht.go):     *)
(* the routing tables and the add-node protocol, the iterative lookup,     *)
(* the local store with its timers, and the message dispatcher.            *)
(*                                                                         *)
(* Identifiers are IDBits-bit numbers; the XOR metric, the bucket index    *)
(* and the routing-table and store primitives of packages routing, store   *)
(* and transport follow their contracts in the specification.              *)
(***************************************************************************)
EXTENDS Integers, Sequences, FiniteSets, TLC

\* ------------------------------------------------------------------ bounds
\* width of an identifier in bits (160 in the program); one bucket per bit
IDBits == 3
\* routing.MaxContactsInBucket, the capacity K of a bucket (20 in the program)
MaxContactsInBucket == 2
\* number of request IDs that can be outstanding at the same time
MaxReq == 3
\* number of calls made in one behaviour: of addNode in SpecAdd, of the public
\* interface in SpecNet
MaxCalls == 3
\* number of calls of the public interface in one behaviour of SpecLookup and
\* of SpecStore
LookupCalls == 1
StoreCalls == 2
\* number of calls of RemoteProcedureCall in one behaviour of SpecRpc
RpcCalls == 2
\* number of requests the peers send in one behaviour of SpecServe
ServeCalls == 2
\* number of ticks of the timer that find work in one behaviour of SpecRefresh
RefreshTicks == 1

\* last value of the clock
MaxTime == 1
\* length of an identifier or key as a byte string (20 in the program)
KeyBytes == 1

\* ------------------------------------------------------------------ configuration
\* routing.ParallelCalls, the fan-out alpha of an iteration round
ParallelCalls == 3
\* the value of routing.MaxContactsInBucket in the program: the durations of
\* getExpirationTime are computed with it, in 64 bits, as the program does
BucketCapacity == 20
\* the defaults NewDHT sets, in seconds
ExpirationTime == 86410
RefreshTime == 3600
ReplicateTime == 3600

\* ------------------------------------------------------------------ identifiers
IDs == 0 .. (2 ^ IDBits - 1)
Buckets == 0 .. (IDBits - 1)
ReqIDs == 1 .. MaxReq

\* the nodes that run the program, and their (single) identity
Nodes == {"A", "B"}
OriginID(n) == IF n = "A" THEN 0 ELSE 5

\* the goroutines of a node: the user's thread, the dispatcher, the timer, and
\* the workers an iteration or Bootstrap starts, one per future (request ID)
Threads == {<<n, k, 0>> : n \in Nodes, k \in {"user", "disp", "timer"}}
             \cup {<<n, "work", r>> : n \in Nodes, r \in ReqIDs}
NodeOf(t) == t[1]

\* a node known by its address only has no ID
NilID == 0 - 1
\* the byte strings the users store, and the absent value
Data == {1}
NoValue == 0

VARIABLES
    rt,       \* rt[n][i]: bucket i of node n's routing table, head first
    htLock,   \* htLock[n]: the thread holding node n's table lock, or NoThread
    refresh,  \* refresh[n][i]: the time bucket i of node n was last refreshed
    kv,       \* kv[n][k]: the entry of node n's local store for key k
    now,      \* the clock, in seconds
    futs,     \* futs[r]: the pending-request registry of the transport
    net,      \* requests in flight
    an,       \* an[t]: thread t's activation of addNode
    it,       \* it[t]: thread t's activation of iterate
    wk,       \* wk[t]: the worker goroutine waiting for one future
    dp,       \* dp[n]: the dispatcher of node n and the message it is handling
    op,       \* op[t]: the call of the public interface thread t is executing
    hist,     \* what the calls made so far have returned
    calls,    \* number of calls made so far
    panicked, \* the nodes whose process has been aborted by a panic
    alive,    \* the nodes that are running; every other peer is the environment
    seeds,    \* seeds[n]: Options.BootstrapNodes of node n
    lp        \* lp[n]: the background loops Listen starts on node n, and its transport

tableVars == <<rt, htLock, refresh>>
netVars == <<futs, net>>
procVars == <<an, it, wk, dp, op>>
confVars == <<alive, seeds, lp>>
vars == <<rt, htLock, refresh, kv, now, futs, net, an, it, wk, dp, op, hist, calls, panicked,
         alive, seeds, lp>>

NoThread == <<"-", "none", 0>>

\* ------------------------------------------------------------------ distance
RECURSIVE XorBits(_, _, _)
XorBits(a, b, n) ==
    IF n = 0 THEN 0
    ELSE (((a % 2) + (b % 2)) % 2) + (2 * XorBits(a \div 2, b \div 2, n - 1))

\* distance(a,b) = a XOR b, compared as an unsigned integer
Distance(a, b) == XorBits(a, b, IDBits)

RECURSIVE LeadingZeros(_, _)
LeadingZeros(d, n) ==
    IF n = 0 \/ d >= 2 ^ (n - 1) THEN 0 ELSE 1 + LeadingZeros(d, n - 1)

\* index of the highest-order bit in which a and b differ, bit 0 being the most
\* significant; for a = b the index is undefined and the value here is IDBits,
\* which is no bucket
GetBucketIndexFromDifferingBit(a, b) == LeadingZeros(Distance(a, b), IDBits)

\* ------------------------------------------------------------------ routing table
Range(s) == {s[i] : i \in 1 .. Len(s)}

SeqRemoveAt(s, i) == SubSeq(s, 1, i - 1) \o SubSeq(s, i + 1, Len(s))

FirstIndexOf(s, x) == CHOOSE i \in 1 .. Len(s) : s[i] = x /\ \A j \in 1 .. (i - 1) : s[j] # x

DoesNodeExistInBucket(table, i, id) == id \in Range(table[i])

\* moves the entry to the tail of its bucket
MarkNodeAsSeen(table, origin, id) ==
    LET i == GetBucketIndexFromDifferingBit(origin, id)
    IN  IF i \in Buckets /\ id \in Range(table[i])
        THEN [table EXCEPT ![i] = Append(SeqRemoveAt(@, FirstIndexOf(@, id)), id)]
        ELSE table

GetTotalNodesInBucket(table, i) == Len(table[i])

RECURSIVE SumLen(_, _)
SumLen(table, S) ==
    IF S = {} THEN 0
    ELSE LET i == CHOOSE x \in S : TRUE IN Len(table[i]) + SumLen(table, S \ {i})

TotalNodes(table) == SumLen(table, Buckets)

\* the entries of bucket i that are closer to key than the origin is
GetAllNodesInBucketCloserThan(table, origin, i, key) ==
    SelectSeq(table[i], LAMBDA id : Distance(id, key) < Distance(origin, key))

RECURSIVE AllEntries(_, _)
AllEntries(table, i) ==
    IF i >= IDBits THEN <<>> ELSE table[i] \o AllEntries(table, i + 1)

\* a route set is a sequence of nodes kept in the order of their distance to
\* the key it was made for; equal distances keep their order
RECURSIVE InsertByDistance(_, _, _)
InsertByDistance(s, x, key) ==
    IF s = <<>> THEN <<x>>
    ELSE IF Distance(x, key) < Distance(Head(s), key) THEN <<x>> \o s
    ELSE <<Head(s)>> \o InsertByDistance(Tail(s), x, key)

RECURSIVE SortByDistance(_, _)
SortByDistance(s, key) ==
    IF s = <<>> THEN <<>>
    ELSE InsertByDistance(SortByDistance(SubSeq(s, 1, Len(s) - 1), key), s[Len(s)], key)

Take(s, num) == SubSeq(s, 1, IF Len(s) < num THEN Len(s) ELSE num)

\* the sorted route set of up to num nodes of the table nearest to key, without
\* the nodes in exclude
GetClosestContacts(table, num, key, exclude) ==
    Take(SortByDistance(SelectSeq(AllEntries(table, 0), LAMBDA id : id \notin exclude), key),
         num)

\* RouteSet.Remove
RouteSetRemove(s, ids) == SelectSeq(s, LAMBDA id : id \notin ids)

\* RouteSet.Extend: the nodes not yet in the set are appended, and the set is sorted
RECURSIVE AppendUnique(_, _)
AppendUnique(s, more) ==
    IF more = <<>> THEN s
    ELSE AppendUnique(IF Head(more) \in Range(s) THEN s ELSE Append(s, Head(more)),
                      Tail(more))

RouteSetExtend(s, more, key) == SortByDistance(AppendUnique(s, more), key)

\* ------------------------------------------------------------------ keys as strings
\* An identifier is the number its KeyBytes bytes spell, the first byte being
\* the most significant. A string is a sequence of base58 digits.
RECURSIVE BytesToNat(_)
BytesToNat(b) ==
    IF b = <<>> THEN 0 ELSE (BytesToNat(SubSeq(b, 1, Len(b) - 1)) * 256) + b[Len(b)]

RECURSIVE NatToDigits(_, _)
NatToDigits(x, base) ==
    IF x = 0 THEN <<>> ELSE Append(NatToDigits(x \div base, base), x % base)

RECURSIVE LeadingZeroCount(_)
LeadingZeroCount(s) ==
    IF s = <<>> \/ Head(s) # 0 THEN 0 ELSE 1 + LeadingZeroCount(Tail(s))

Zeros(k) == [i \in 1 .. k |-> 0]

IDToBytes(id) ==
    LET d == NatToDigits(id, 256) IN Zeros(KeyBytes - Len(d)) \o d

\* base58.Encode: the digits of the number, after one zero digit ("1") for
\* every leading zero byte
Base58Encode(b) == Zeros(LeadingZeroCount(b)) \o NatToDigits(BytesToNat(b), 58)

RECURSIVE DigitsToNat(_)
DigitsToNat(s) ==
    IF s = <<>> THEN 0 ELSE (DigitsToNat(SubSeq(s, 1, Len(s) - 1)) * 58) + s[Len(s)]

\* base58.Decode: the bytes of the number, after one zero byte for every
\* leading zero digit
Base58Decode(s) == Zeros(LeadingZeroCount(s)) \o NatToDigits(DigitsToNat(s), 256)

\* ------------------------------------------------------------------ 64-bit durations
\* An int64 is kept as its eight bytes, the least significant first, so that
\* products wrap as they do in the program.
Limbs == 8

RECURSIVE ToInt64(_, _)
ToInt64(x, k) == IF k = 0 THEN <<>> ELSE <<x % 256>> \o ToInt64(x \div 256, k - 1)

RECURSIVE Column(_, _, _, _)
Column(a, b, k, i) ==
    IF i > k THEN 0 ELSE (a[i] * b[k + 1 - i]) + Column(a, b, k, i + 1)

RECURSIVE MulFrom(_, _, _, _)
MulFrom(a, b, k, carry) ==
    IF k > Limbs THEN <<>>
    ELSE LET sum == Column(a, b, k, 1) + carry
         IN  <<sum % 256>> \o MulFrom(a, b, k + 1, sum \div 256)

\* a * b in int64 arithmetic
Mul64(a, b) == MulFrom(a, b, 1, 0)

IsNegative64(a) == a[Limbs] >= 128

RECURSIVE LessEqFrom(_, _, _)
LessEqFrom(a, b, k) ==
    IF k = 0 THEN TRUE
    ELSE IF a[k] # b[k] THEN a[k] < b[k]
    ELSE LessEqFrom(a, b, k - 1)

\* a <= b for two int64 that are not negative
LessEq64(a, b) == LessEqFrom(a, b, Limbs)

\* time.Second, in nanoseconds
Second == ToInt64(1000000000, Limbs)

\* Duration.Nanoseconds() of a whole number of seconds
Nanoseconds(sec) == Mul64(ToInt64(sec, Limbs), Second)

\* int64(math.Exp(float64(q))) for q = 0, 1, ...
ExpTable == <<1, 2, 7, 20, 54, 148, 403, 1096, 2980, 8103, 22026, 59874, 162754, 442413,
              1202604, 3269017, 8886110, 24154952, 65659969, 178482300, 485165195>>

ExpInt(q) == ExpTable[q + 1]

\* ------------------------------------------------------------------ local store
\* store.NewKey: the content hash of the data
NewKey(d) == ((3 * d) + 6) % (2 ^ IDBits)

Keys == {NewKey(d) : d \in Data}

NoEntry == [value |-> NoValue, at |-> 0, dur |-> ToInt64(0, Limbs), replication |-> 0,
            publisher |-> FALSE]

Retrieve(store, key) == IF key \in Keys THEN store[key].value ELSE NoValue

\* an entry expires once its deadline, the time at + dur, is not after the clock
Expired(e, t) ==
    e.value # NoValue /\ (IsNegative64(e.dur) \/ LessEq64(e.dur, Nanoseconds(t - e.at)))

ExpireKeys(store, t) == [k \in Keys |-> IF Expired(store[k], t) THEN NoEntry ELSE store[k]]

GetKeysReadyToReplicate(store, t) ==
    {k \in Keys : store[k].value # NoValue /\ store[k].publisher /\ store[k].replication <= t}

\* getExpirationTime: the duration added to time.Now()
ScoreOf(table, origin, key) ==
    LET bucket == GetBucketIndexFromDifferingBit(key, origin)
        total == SumLen(table, {i \in Buckets : i < bucket})
        closer == GetAllNodesInBucketCloserThan(table, origin, bucket, key)
    IN  IF total + Len(closer) = 0 THEN 1 ELSE total + Len(closer)

ExpirationDuration(table, origin, key) ==
    LET score == ScoreOf(table, origin, key) IN
    IF score > BucketCapacity
    THEN Nanoseconds(ExpirationTime)
    ELSE LET seconds == Mul64(Nanoseconds(ExpirationTime),
                              ToInt64(ExpInt(BucketCapacity \div score), Limbs))
         IN  Mul64(Second, seconds)

\* ------------------------------------------------------------------ transport
\* a message: request ID, sender, receiver (address and ID), type and payload,
\* and the address it travels to (the receiver's, when the program sends it);
\* a response carries the type and the request ID of its request
NoMsg == [req |-> 0, from |-> NilID, to |-> NilID, toId |-> NilID, type |-> "none",
          target |-> 0, data |-> NoValue, at |-> NilID, isResponse |-> FALSE,
          closest |-> <<>>, err |-> FALSE]

Message(from, to, toId, type, target, data) ==
    [NoMsg EXCEPT !.from = from, !.to = to, !.toId = toId, !.type = type,
                  !.target = target, !.data = data, !.at = to]

\* the payload of a response and its sender
NoResp == [sender |-> NilID, closest |-> <<>>, value |-> NoValue, err |-> FALSE]

Response(sender, closest, value, err) ==
    [sender |-> sender, closest |-> closest, value |-> value, err |-> err]

\* a future of the registry: free, pending, resolved (the response waits in its
\* channel), or abandoned (pending, and nobody reads its channel any more)
NoFut == [st |-> "free", owner |-> "-", to |-> NilID, resp |-> NoResp]

\* the request IDs that are not outstanding
FreeReqsOf(F, N) ==
    {r \in ReqIDs : /\ F[r].st = "free"
                    /\ \A m \in N : m.req # r
                    /\ \A n \in Nodes : wk[<<n, "work", r>>].pc = "none"}

FreeReqs == FreeReqsOf(futs, net)

MinOf(S) == CHOOSE r \in S : \A q \in S : r <= q

\* the request ID SendRequest attaches
NewReq == MinOf(FreeReqs)

\* SendRequest for each message of msgs in turn: the registry, the network and
\* the request IDs given
RECURSIVE SendAll(_, _, _, _, _)
SendAll(F, N, n, msgs, acc) ==
    IF msgs = <<>> THEN [futs |-> F, net |-> N, reqs |-> acc]
    ELSE LET r == MinOf(FreeReqsOf(F, N))
             m == Head(msgs)
         IN  SendAll([F EXCEPT ![r] = [st |-> "pending", owner |-> n, to |-> m.to,
                                       resp |-> NoResp]],
                     N \cup {[m EXCEPT !.req = r]}, n, Tail(msgs), Append(acc, r))

\* SendResponse: the response reaches the future of its request ID, and is
\* discarded when that future has been cancelled
Resolve(F, r, resp) ==
    IF F[r].st = "pending" THEN [F EXCEPT ![r].st = "resolved", ![r].resp = resp]
    ELSE IF F[r].st = "abandoned" THEN [F EXCEPT ![r] = NoFut]
    ELSE F

\* Future.Cancel
Cancel(F, r) == [F EXCEPT ![r] = NoFut]

Running(n) == n \in alive /\ n \notin panicked

\* the address of a peer is the one of a running node
IsNode(addr) == \E n \in alive : OriginID(n) = addr

\* ------------------------------------------------------------------ activations
NoIter == [pc |-> "none", type |-> "none", target |-> 0, data |-> NoValue,
           routeSet |-> <<>>, contacted |-> {}, queryRest |-> FALSE,
           closestNode |-> NilID, remove |-> {}, futuresCount |-> 0, results |-> <<>>,
           value |-> NoValue, closest |-> <<>>, timedOut |-> {}, asked |-> <<>>]

NoWorker == [pc |-> "none", parent |-> NoThread, kind |-> "none", req |-> 0,
             resp |-> NoResp, closed |-> FALSE]

NoDisp == [pc |-> "idle", msg |-> NoMsg]

NoOp == [name |-> "none", pc |-> "idle", arg |-> <<>>, data |-> NoValue, key |-> 0,
         value |-> NoValue, exists |-> FALSE, node |-> NilID, err |-> "", seen |-> {}, boot |-> FALSE,
         i |-> 0, wg |-> 0, rpc |-> FALSE, req |-> 0, rsp |-> NoResp, keys |-> {}]

\* ------------------------------------------------------------------ addNode
NoFrame == [pc |-> "none", id |-> 0, idx |-> 0, bucket |-> <<>>, req |-> 0,
            head |-> 0, out |-> "none"]

\* (the bucket counted from the least significant bit)
AddNodeEnterFromLowBit(t, id) ==
    [NoFrame EXCEPT !.pc = "check", !.id = id,
                    !.idx = (IDBits - 1)
                            - GetBucketIndexFromDifferingBit(OriginID(NodeOf(t)), id)]

\* the call dht.addNode(ctx, node): the frame of a fresh activation
AddNodeEnter(t, id) ==
    [NoFrame EXCEPT !.pc = "check", !.id = id,
                    !.idx = GetBucketIndexFromDifferingBit(OriginID(NodeOf(t)), id)]

\* if ht.DoesNodeExistInBucket(index, node.ID): the table lock is taken for the
\* test and released before the call returns
AddNodeCheck(t) ==
    LET n == NodeOf(t) f == an[t] IN
    /\ f.pc = "check"
    /\ htLock[n] = NoThread
    /\ an' = [an EXCEPT ![t].pc =
                 IF DoesNodeExistInBucket(rt[n], f.idx, f.id) THEN "mark" ELSE "lock"]
    /\ UNCHANGED <<tableVars, netVars, kv, now, it, wk, dp, op, hist, calls, panicked, confVars>>

\* ht.MarkNodeAsSeen(node.ID); return
AddNodeMark(t) ==
    LET n == NodeOf(t) f == an[t] IN
    /\ f.pc = "mark"
    /\ htLock[n] = NoThread
    /\ rt' = [rt EXCEPT ![n] = MarkNodeAsSeen(@, OriginID(n), f.id)]
    /\ an' = [an EXCEPT ![t].pc = "done", ![t].out = "seen"]
    /\ UNCHANGED <<htLock, refresh, netVars, kv, now, it, wk, dp, op, hist, calls, panicked, confVars>>

\* if len(bucket) == routing.MaxContactsInBucket
BucketIsFullOffByOne(bucket) == Len(bucket) = MaxContactsInBucket + 1

BucketIsFull(bucket) == Len(bucket) = MaxContactsInBucket

\* (the bucket is written back without the new node)
AddNodeAppendDropped(t) ==
    LET n == NodeOf(t) f == an[t] bucket == rt[n][f.idx] IN
    /\ f.pc = "lock"
    /\ htLock[n] = NoThread
    /\ ~BucketIsFull(bucket)
    /\ an' = [an EXCEPT ![t].pc = "done", ![t].out = "appended", ![t].bucket = bucket]
    /\ UNCHANGED <<tableVars, netVars, kv, now, it, wk, dp, op, hist, calls, panicked, confVars>>

\* ht.Lock(); bucket := ht.RoutingTable[index]; the bucket has room:
\* bucket = append(bucket, node); ht.RoutingTable[index] = bucket; ht.Unlock()
AddNodeAppend(t) ==
    LET n == NodeOf(t) f == an[t] bucket == rt[n][f.idx] IN
    /\ f.pc = "lock"
    /\ htLock[n] = NoThread
    /\ ~BucketIsFull(bucket)
    /\ rt' = [rt EXCEPT ![n][f.idx] = Append(bucket, f.id)]
    /\ an' = [an EXCEPT ![t].pc = "done", ![t].out = "appended", ![t].bucket = bucket]
    /\ UNCHANGED <<htLock, refresh, netVars, kv, now, it, wk, dp, op, hist, calls, panicked, confVars>>

\* ht.Lock(); the bucket is full: the head is pinged, and SendRequest succeeds.
\* The thread waits for the reply with the table lock held.
AddNodePing(t) ==
    LET n == NodeOf(t) f == an[t] bucket == rt[n][f.idx] IN
    /\ f.pc = "lock"
    /\ htLock[n] = NoThread
    /\ BucketIsFull(bucket)
    /\ FreeReqs # {}
    /\ htLock' = [htLock EXCEPT ![n] = t]
    /\ LET sent == SendAll(futs, net, n,
                           <<Message(OriginID(n), bucket[1], bucket[1], "Ping", 0, NoValue)>>,
                           <<>>)
       IN  futs' = sent.futs /\ net' = sent.net
    /\ an' = [an EXCEPT ![t].pc = "ping", ![t].bucket = bucket, ![t].req = NewReq,
                        ![t].head = bucket[1]]
    /\ UNCHANGED <<rt, refresh, kv, now, it, wk, dp, op, hist, calls, panicked, confVars>>

\* ht.Lock(); the bucket is full and SendRequest returns an error:
\* bucket = append(bucket, node); bucket = bucket[1:]
AddNodePingSendFails(t) ==
    LET n == NodeOf(t) f == an[t] bucket == rt[n][f.idx] IN
    /\ f.pc = "lock"
    /\ htLock[n] = NoThread
    /\ BucketIsFull(bucket)
    /\ rt' = [rt EXCEPT ![n][f.idx] = Tail(Append(bucket, f.id))]
    /\ an' = [an EXCEPT ![t].pc = "done", ![t].out = "sendfail", ![t].bucket = bucket,
                        ![t].head = bucket[1]]
    /\ UNCHANGED <<htLock, refresh, netVars, kv, now, it, wk, dp, op, hist, calls, panicked, confVars>>

\* case <-future.Result(): return
AddNodePingReply(t) ==
    LET n == NodeOf(t) f == an[t] IN
    /\ f.pc = "ping"
    /\ futs[f.req].st = "resolved"
    /\ futs' = Cancel(futs, f.req)
    /\ htLock' = [htLock EXCEPT ![n] = NoThread]
    /\ an' = [an EXCEPT ![t].pc = "done", ![t].out = "replied"]
    /\ UNCHANGED <<rt, refresh, net, kv, now, it, wk, dp, op, hist, calls, panicked, confVars>>

\* (the head is dropped and the new node is not appended)
AddNodePingTimeoutDropsHead(t) ==
    LET n == NodeOf(t) f == an[t] IN
    /\ f.pc = "ping"
    /\ rt' = [rt EXCEPT ![n][f.idx] = Tail(f.bucket)]
    /\ futs' = [futs EXCEPT ![f.req].st = IF @ = "pending" THEN "abandoned" ELSE @]
    /\ htLock' = [htLock EXCEPT ![n] = NoThread]
    /\ an' = [an EXCEPT ![t].pc = "done", ![t].out = "timeout"]
    /\ UNCHANGED <<refresh, net, kv, now, it, wk, dp, op, hist, calls, panicked, confVars>>

\* case <-time.After(dht.options.PingTimeout):
\* bucket = bucket[1:]; bucket = append(bucket, node). The future is left as it is.
AddNodePingTimeout(t) ==
    LET n == NodeOf(t) f == an[t] IN
    /\ f.pc = "ping"
    /\ rt' = [rt EXCEPT ![n][f.idx] = Append(Tail(f.bucket), f.id)]
    /\ futs' = [futs EXCEPT ![f.req].st = IF @ = "pending" THEN "abandoned" ELSE @]
    /\ htLock' = [htLock EXCEPT ![n] = NoThread]
    /\ an' = [an EXCEPT ![t].pc = "done", ![t].out = "timeout"]
    /\ UNCHANGED <<refresh, net, kv, now, it, wk, dp, op, hist, calls, panicked, confVars>>

AddNodeStep(t) ==
    \/ AddNodeCheck(t)
    \/ AddNodeMark(t)
    \/ AddNodeAppend(t)
    \/ AddNodePing(t)
    \/ AddNodePingSendFails(t)
    \/ AddNodePingReply(t)
    \/ AddNodePingTimeout(t)

\* ------------------------------------------------------------------ iterate
\* the call dht.iterate(ctx, t, target, data)
IterEnter(type, target, data) ==
    [NoIter EXCEPT !.pc = "start", !.type = type, !.target = target, !.data = data]

\* the frame of an iteration that returns (value, closest, nil)
IterExit(f, value, closest) ==
    [f EXCEPT !.pc = "ret", !.value = value, !.closest = closest]

\* routeSet := ht.GetClosestContacts(routing.ParallelCalls, target, ...); an
\* empty route set ends the iteration; a Bootstrap resets the refresh time of
\* the target's bucket (any bucket when the target is the origin's own ID, for
\* which the bucket index is undefined)
IterStart(t) ==
    LET n == NodeOf(t)
        f == it[t]
        rs == GetClosestContacts(rt[n], ParallelCalls, f.target, {})
        bucket == GetBucketIndexFromDifferingBit(f.target, OriginID(n))
    IN
    /\ f.pc = "start"
    /\ htLock[n] = NoThread
    /\ IF rs = <<>>
       THEN /\ it' = [it EXCEPT ![t] = IterExit(f, NoValue, <<>>)]
            /\ UNCHANGED refresh
       ELSE /\ it' = [it EXCEPT ![t].pc = "send", ![t].routeSet = rs,
                                ![t].closestNode = rs[1]]
            /\ IF f.type = "Bootstrap"
               THEN \E b \in (IF bucket \in Buckets THEN {bucket} ELSE Buckets) :
                        refresh' = [refresh EXCEPT ![n][b] = now]
               ELSE UNCHANGED refresh
    /\ UNCHANGED <<rt, htLock, kv, now, netVars, an, wk, dp, op, hist, calls, panicked,
                   confVars>>

\* the nodes of the route set a round contacts: among the first alpha nodes
\* (all nodes when queryRest), those not contacted yet
RECURSIVE RoundReceivers(_, _, _, _)
RoundReceivers(rs, i, contacted, queryRest) ==
    IF i > Len(rs) \/ (i > ParallelCalls /\ ~queryRest) THEN <<>>
    ELSE IF rs[i] \in contacted THEN RoundReceivers(rs, i + 1, contacted, queryRest)
    ELSE <<rs[i]>> \o RoundReceivers(rs, i + 1, contacted \cup {rs[i]}, queryRest)

\* the request an iteration of the given type sends to a receiver
IterRequest(n, f, receiver) ==
    Message(OriginID(n), receiver, receiver,
            IF f.type = "FindValue" THEN "FindValue" ELSE "FindNode", f.target, NoValue)

\* (the receivers are not marked as contacted)
IterSendForgetful(t, failed) ==
    LET n == NodeOf(t)
        f == it[t]
        receivers == RoundReceivers(f.routeSet, 1, f.contacted, f.queryRest)
        reached == SelectSeq(receivers, LAMBDA id : id \notin failed)
        sent == SendAll(futs, net, n,
                        [i \in 1 .. Len(reached) |-> IterRequest(n, f, reached[i])], <<>>)
        remove == f.remove \cup failed
    IN
    /\ f.pc = "send"
    /\ failed \subseteq Range(receivers)
    /\ Cardinality(FreeReqs) >= Len(reached)
    /\ futs' = sent.futs
    /\ net' = sent.net
    /\ wk' = [w \in Threads |->
                 IF w[1] = n /\ w[2] = "work" /\ w[3] \in Range(sent.reqs)
                 THEN [NoWorker EXCEPT !.pc = "wait", !.parent = t, !.kind = "iter",
                                       !.req = w[3]]
                 ELSE wk[w]]
    /\ it' = [it EXCEPT ![t].asked = f.asked \o reached,
                        ![t].remove = remove,
                        ![t].routeSet = RouteSetRemove(f.routeSet, remove),
                        ![t].futuresCount = Len(reached),
                        ![t].results = <<>>,
                        ![t].pc = IF Len(reached) > 0 THEN "collect" ELSE "decide"]
    /\ UNCHANGED <<tableVars, kv, now, an, dp, op, hist, calls, panicked, confVars>>

\* One pass of the sending loop: each receiver is marked as contacted and sent
\* a request; the receivers in failed are those SendRequest fails for, they
\* are removed from the route set; a worker is started for every future.
\* (asked only records, for the properties, the requests that were sent)
IterSend(t, failed) ==
    LET n == NodeOf(t)
        f == it[t]
        receivers == RoundReceivers(f.routeSet, 1, f.contacted, f.queryRest)
        reached == SelectSeq(receivers, LAMBDA id : id \notin failed)
        sent == SendAll(futs, net, n,
                        [i \in 1 .. Len(reached) |-> IterRequest(n, f, reached[i])], <<>>)
        remove == f.remove \cup failed
    IN
    /\ f.pc = "send"
    /\ failed \subseteq Range(receivers)
    /\ Cardinality(FreeReqs) >= Len(reached)
    /\ futs' = sent.futs
    /\ net' = sent.net
    /\ wk' = [w \in Threads |->
                 IF w[1] = n /\ w[2] = "work" /\ w[3] \in Range(sent.reqs)
                 THEN [NoWorker EXCEPT !.pc = "wait", !.parent = t, !.kind = "iter",
                                       !.req = w[3]]
                 ELSE wk[w]]
    /\ it' = [it EXCEPT ![t].contacted = f.contacted \cup Range(receivers),
                        ![t].asked = f.asked \o reached,
                        ![t].remove = remove,
                        ![t].routeSet = RouteSetRemove(f.routeSet, remove),
                        ![t].futuresCount = Len(reached),
                        ![t].results = <<>>,
                        ![t].pc = IF Len(reached) > 0 THEN "collect" ELSE "decide"]
    /\ UNCHANGED <<tableVars, kv, now, an, dp, op, hist, calls, panicked, confVars>>

\* close(resultChan): every worker of the thread that has not delivered finds
\* the channel closed
CloseResultChan(W, t, except) ==
    [w \in Threads |->
        IF w = except THEN NoWorker
        ELSE IF W[w].pc # "none" /\ W[w].parent = t /\ W[w].kind = "iter"
        THEN [W[w] EXCEPT !.closed = TRUE]
        ELSE W[w]]

\* case result := <-resultChan: the round ends when every future has delivered
IterCollect(t, w) ==
    LET f == it[t]
        results == Append(f.results, wk[w].resp)
    IN
    /\ f.pc = "collect"
    /\ wk[w].pc = "offer" /\ wk[w].parent = t /\ ~wk[w].closed
    /\ it' = [it EXCEPT ![t].results = results,
                        ![t].pc = IF Len(results) = f.futuresCount THEN "decide"
                                  ELSE "collect"]
    /\ wk' = IF Len(results) = f.futuresCount THEN CloseResultChan(wk, t, w)
             ELSE [wk EXCEPT ![w] = NoWorker]
    /\ UNCHANGED <<tableVars, kv, now, netVars, an, dp, op, hist, calls, panicked, confVars>>

\* case <-time.After(dht.options.MessageTimeout): close(resultChan); break Loop
IterCollectTimeout(t) ==
    /\ it[t].pc = "collect"
    /\ it' = [it EXCEPT ![t].pc = "decide"]
    /\ wk' = CloseResultChan(wk, t, NoThread)
    /\ UNCHANGED <<tableVars, kv, now, netVars, an, dp, op, hist, calls, panicked, confVars>>

\* for _, result := range results: an error response removes its sender, a
\* value or an exact hit ends the iteration, a closest list is merged
RECURSIVE ProcessResults(_, _, _, _)
ProcessResults(rs, results, type, target) ==
    IF results = <<>>
    THEN [routeSet |-> rs, done |-> FALSE, value |-> NoValue, closest |-> <<>>]
    ELSE LET r == Head(results) IN
         IF r.err
         THEN ProcessResults(RouteSetRemove(rs, {r.sender}), Tail(results), type, target)
         ELSE IF type = "FindValue"
         THEN IF r.value # NoValue
              THEN [routeSet |-> RouteSetExtend(rs, r.closest, target), done |-> TRUE,
                    value |-> r.value, closest |-> <<>>]
              ELSE ProcessResults(RouteSetExtend(rs, r.closest, target), Tail(results),
                                  type, target)
         ELSE IF r.closest # <<>> /\ r.closest[1] = target
              THEN [routeSet |-> rs, done |-> TRUE, value |-> NoValue,
                    closest |-> r.closest]
              ELSE ProcessResults(RouteSetExtend(rs, r.closest, target), Tail(results),
                                  type, target)

\* (the decision without the return on an empty route set)
IterDecisionWithoutEmptyCheck(f) ==
    LET p == ProcessResults(f.routeSet, f.results, f.type, f.target)
        sorted == SortByDistance(p.routeSet, f.target)
        g == [f EXCEPT !.routeSet = sorted, !.results = <<>>]
    IN
    IF p.done THEN IterExit([f EXCEPT !.routeSet = p.routeSet], p.value, p.closest)
    ELSE IF sorted = <<>> THEN [g EXCEPT !.pc = "panic"]
    ELSE IF sorted[1] = f.closestNode \/ f.queryRest
    THEN CASE f.type = "Bootstrap" ->
                  IF ~f.queryRest THEN [g EXCEPT !.queryRest = TRUE, !.pc = "send"]
                  ELSE IterExit(g, NoValue, sorted)
           [] f.type \in {"FindNode", "FindValue"} -> IterExit(g, NoValue, sorted)
           [] OTHER -> [g EXCEPT !.pc = "store"]
    ELSE [g EXCEPT !.closestNode = sorted[1], !.pc = "send"]

\* the frame after the results of a round are processed and progress is decided
IterDecision(f) ==
    LET p == ProcessResults(f.routeSet, f.results, f.type, f.target)
        sorted == SortByDistance(p.routeSet, f.target)
        g == [f EXCEPT !.routeSet = sorted, !.results = <<>>]
    IN
    IF p.done THEN IterExit([f EXCEPT !.routeSet = p.routeSet], p.value, p.closest)
    ELSE IF ~f.queryRest /\ p.routeSet = <<>> THEN IterExit(g, NoValue, <<>>)
    ELSE IF sorted = <<>> THEN [g EXCEPT !.pc = "panic"]
    ELSE IF sorted[1] = f.closestNode \/ f.queryRest
    THEN CASE f.type = "Bootstrap" ->
                  IF ~f.queryRest THEN [g EXCEPT !.queryRest = TRUE, !.pc = "send"]
                  ELSE IterExit(g, NoValue, sorted)
           [] f.type \in {"FindNode", "FindValue"} -> IterExit(g, NoValue, sorted)
           [] OTHER -> [g EXCEPT !.pc = "store"]
    ELSE [g EXCEPT !.closestNode = sorted[1], !.pc = "send"]

IterDecide(t) ==
    /\ it[t].pc = "decide"
    /\ it' = [it EXCEPT ![t] = IterDecision(it[t])]
    /\ panicked' = IF IterDecision(it[t]).pc = "panic" THEN panicked \cup {NodeOf(t)}
                   ELSE panicked
    /\ UNCHANGED <<tableVars, kv, now, netVars, an, wk, dp, op, hist, calls, confVars>>

\* case routing.IterateStore: a Store request goes to the first K nodes of the
\* route set; each future is cancelled at once
IterStoreSend(t) ==
    LET n == NodeOf(t)
        f == it[t]
        receivers == Take(f.routeSet, MaxContactsInBucket)
        sent == SendAll(futs, net, n,
                        [i \in 1 .. Len(receivers) |->
                            Message(OriginID(n), receivers[i], receivers[i], "Store", 0,
                                    f.data)], <<>>)
    IN
    /\ f.pc = "store"
    /\ Cardinality(FreeReqs) >= Len(receivers)
    /\ net' = sent.net
    /\ it' = [it EXCEPT ![t] = IterExit(f, NoValue, <<>>)]
    /\ UNCHANGED <<tableVars, kv, now, futs, an, wk, dp, op, hist, calls, panicked,
                   confVars>>

\* future, _ := dht.transport.SendRequest(msg); future.Cancel(), when the send
\* to the k-th receiver fails: there is no future to cancel
IterStoreSendFails(t) ==
    LET n == NodeOf(t)
        f == it[t]
        receivers == Take(f.routeSet, MaxContactsInBucket)
    IN
    /\ f.pc = "store"
    /\ Cardinality(FreeReqs) >= Len(receivers)
    /\ \E k \in 1 .. Len(receivers) :
           net' = SendAll(futs, net, n,
                          [i \in 1 .. (k - 1) |->
                              Message(OriginID(n), receivers[i], receivers[i], "Store", 0,
                                      f.data)], <<>>).net
    /\ it' = [it EXCEPT ![t].pc = "panic"]
    /\ panicked' = panicked \cup {n}
    /\ UNCHANGED <<tableVars, kv, now, futs, an, wk, dp, op, hist, calls, confVars>>

\* ------------------------------------------------------------------ workers
\* case result := <-future.Result(): dht.addNode(ctx, routing.NewRouteNode(result.Sender))
\* (the worker of Bootstrap starts once the loop over the seeds has ended)
WorkerResult(w) ==
    LET r == wk[w].req IN
    /\ wk[w].pc = "wait"
    /\ wk[w].kind = "boot" => op[wk[w].parent].pc = "bootwait"
    /\ futs[r].st = "resolved"
    /\ futs' = Cancel(futs, r)
    /\ wk' = [wk EXCEPT ![w].pc = "add", ![w].resp = futs[r].resp]
    /\ an' = [an EXCEPT ![w] = AddNodeEnter(w, futs[r].resp.sender)]
    /\ UNCHANGED <<tableVars, kv, now, net, it, dp, op, hist, calls, panicked, confVars>>

\* addNode has returned: the worker of an iteration offers the result on
\* resultChan, the worker of Bootstrap calls wg.Done()
WorkerAdded(w) ==
    /\ wk[w].pc = "add"
    /\ an[w].pc = "done"
    /\ an' = [an EXCEPT ![w] = NoFrame]
    /\ IF wk[w].kind = "iter"
       THEN wk' = [wk EXCEPT ![w].pc = "offer"] /\ UNCHANGED op
       ELSE /\ wk' = [wk EXCEPT ![w] = NoWorker]
            /\ op' = [op EXCEPT ![wk[w].parent].wg = @ - 1]
    /\ UNCHANGED <<tableVars, kv, now, netVars, it, dp, hist, calls, panicked, confVars>>

\* case <-time.After(dht.options.MessageTimeout): future.Cancel(); the
\* iteration keeps no trace of it: timedOut only records, for the properties,
\* the peers whose request timed out while their round was collecting
WorkerTimeout(w) ==
    /\ wk[w].pc = "wait"
    /\ wk[w].kind = "boot" => op[wk[w].parent].pc = "bootwait"
    /\ futs' = Cancel(futs, wk[w].req)
    /\ wk' = [wk EXCEPT ![w] = NoWorker]
    /\ IF wk[w].kind = "boot" THEN op' = [op EXCEPT ![wk[w].parent].wg = @ - 1]
       ELSE UNCHANGED op
    /\ IF wk[w].kind = "iter" /\ ~wk[w].closed /\ it[wk[w].parent].pc = "collect"
       THEN it' = [it EXCEPT ![wk[w].parent].timedOut = @ \cup {futs[wk[w].req].to}]
       ELSE UNCHANGED it
    /\ UNCHANGED <<tableVars, kv, now, net, an, dp, hist, calls, panicked, confVars>>

\* resultChan <- result on the closed channel of a round that has ended
WorkerOfferClosed(w) ==
    /\ wk[w].pc = "offer"
    /\ wk[w].closed
    /\ wk' = [wk EXCEPT ![w] = NoWorker]
    /\ panicked' = panicked \cup {NodeOf(w)}
    /\ UNCHANGED <<tableVars, kv, now, netVars, an, it, dp, op, hist, calls, confVars>>

\* ------------------------------------------------------------------ dispatcher
\* Message.IsForMe: the receiver's address or ID is one of the origin's
IsForMe(m, n) == m.to = OriginID(n) \/ m.toId = OriginID(n)

\* cb.SetNodeByID(msg.Receiver.ID) finds the identity (SetDefaultNode when the
\* receiver has no ID)
HasIdentity(n, id) == id = NilID \/ id = OriginID(n)

DispThread(n) == <<n, "disp", 0>>

\* the response to the request m, as a message
ResponseMessage(n, m, resp) ==
    [NoMsg EXCEPT !.req = m.req, !.from = OriginID(n), !.to = m.from, !.toId = m.from,
                  !.at = m.from, !.type = m.type, !.target = m.target,
                  !.data = resp.value, !.closest = resp.closest, !.err = resp.err,
                  !.isResponse = TRUE]

\* dht.transport.SendResponse(msg.RequestID, ...), N being the requests in
\* flight: the response resolves the future of a running node, and travels to
\* a peer of the environment
SendResponse(N, n, m, resp) ==
    IF IsNode(m.from)
    THEN futs' = Resolve(futs, m.req, resp) /\ net' = N
    ELSE futs' = futs /\ net' = N \cup {ResponseMessage(n, m, resp)}

\* (processPing adds the sender as the other handlers do)
DispReceiveAddsPinger(n, m) ==
    /\ dp[n].pc = "idle"
    /\ m \in net
    /\ m.at = OriginID(n)
    /\ IsForMe(m, n) /\ HasIdentity(n, m.toId)
    /\ net' = net \ {m}
    /\ an' = [an EXCEPT ![DispThread(n)] = AddNodeEnter(DispThread(n), m.from)]
    /\ dp' = [dp EXCEPT ![n] = [pc |-> "add", msg |-> m]]
    /\ UNCHANGED <<tableVars, kv, now, futs, it, wk, op, hist, calls, panicked, confVars>>

\* case msg := <-dht.transport.Messages(): a message that is not for this node
\* is dropped; a context is built for the identity of the receiver's ID, and
\* the process is aborted when there is none; processPing answers at once;
\* every other handler first adds the sender to the routing table
DispReceive(n, m) ==
    /\ dp[n].pc = "idle"
    /\ m \in net
    /\ m.at = OriginID(n)
    /\ IF ~IsForMe(m, n)
       THEN net' = net \ {m} /\ UNCHANGED <<futs, an, dp, panicked>>
       ELSE IF ~HasIdentity(n, m.toId)
       THEN /\ net' = net \ {m}
            /\ panicked' = panicked \cup {n}
            /\ UNCHANGED <<futs, an, dp>>
       ELSE IF m.type = "Ping"
       THEN /\ SendResponse(net \ {m}, n, m, Response(OriginID(n), <<>>, NoValue, FALSE))
            /\ UNCHANGED <<an, dp, panicked>>
       ELSE /\ net' = net \ {m}
            /\ an' = [an EXCEPT ![DispThread(n)] = AddNodeEnter(DispThread(n), m.from)]
            /\ dp' = [dp EXCEPT ![n] = [pc |-> "add", msg |-> m]]
            /\ UNCHANGED <<futs, panicked>>
    /\ UNCHANGED <<tableVars, kv, now, it, wk, op, hist, calls, confVars>>

\* the entry Store writes for the data
StoreEntry(n, d, publisher) ==
    [value |-> d, at |-> now, dur |-> ExpirationDuration(rt[n], OriginID(n), NewKey(d)),
     replication |-> now + ReplicateTime, publisher |-> publisher]

\* (the sender is not excluded from the closest contacts)
ProcessFindNodeWithSender(n, m) ==
    /\ SendResponse(net, n, m,
                    Response(OriginID(n),
                             GetClosestContacts(rt[n], MaxContactsInBucket, m.target, {}),
                             NoValue, FALSE))
    /\ UNCHANGED kv

\* processFindNode, after addNode
ProcessFindNode(n, m) ==
    /\ SendResponse(net, n, m,
                    Response(OriginID(n),
                             GetClosestContacts(rt[n], MaxContactsInBucket, m.target,
                                                {m.from}),
                             NoValue, FALSE))
    /\ UNCHANGED kv

\* (the value of the local store is not looked up)
ProcessFindValueWithoutValue(n, m) ==
    /\ SendResponse(net, n, m,
                    Response(OriginID(n),
                             GetClosestContacts(rt[n], MaxContactsInBucket, m.target,
                                                {m.from}),
                             NoValue, FALSE))
    /\ UNCHANGED kv

\* processFindValue, after addNode
ProcessFindValue(n, m) ==
    /\ SendResponse(net, n, m,
                    IF Retrieve(kv[n], m.target) # NoValue
                    THEN Response(OriginID(n), <<>>, Retrieve(kv[n], m.target), FALSE)
                    ELSE Response(OriginID(n),
                                  GetClosestContacts(rt[n], MaxContactsInBucket,
                                                     m.target, {m.from}),
                                  NoValue, FALSE))
    /\ UNCHANGED kv

\* processStore, after addNode
ProcessStore(n, m) ==
    /\ kv' = [kv EXCEPT ![n][NewKey(m.data)] = StoreEntry(n, m.data, FALSE)]
    /\ UNCHANGED <<futs, net>>

\* processRPC, after addNode: the procedure is invoked, and its result or its
\* error is the response
ProcessRPC(n, m) ==
    /\ \E result \in Data \cup {NoValue} :
           SendResponse(net, n, m, Response(OriginID(n), <<>>, result, result = NoValue))
    /\ UNCHANGED kv

DispFinish(n) ==
    LET m == dp[n].msg IN
    /\ dp[n].pc = "add"
    /\ an[DispThread(n)].pc = "done"
    /\ htLock[n] = NoThread
    /\ an' = [an EXCEPT ![DispThread(n)] = NoFrame]
    /\ dp' = [dp EXCEPT ![n] = NoDisp]
    /\ CASE m.type = "FindNode" -> ProcessFindNode(n, m)
         [] m.type = "FindValue" -> ProcessFindValue(n, m)
         [] m.type = "RPC" -> ProcessRPC(n, m)
         [] OTHER -> ProcessStore(n, m)
    /\ UNCHANGED <<tableVars, now, it, wk, op, hist, calls, panicked, confVars>>

\* ------------------------------------------------------------------ timers
\* case <-ticker.C, when no bucket is due for a refresh and no key is ready to
\* replicate: dht.store.ExpireKeys()
RefreshDue(n) == {i \in Buckets : now - refresh[n][i] > RefreshTime}

TimerTickIdle(n) ==
    /\ GetKeysReadyToReplicate(kv[n], now) = {}
    /\ RefreshDue(n) = {}
    /\ kv' = [kv EXCEPT ![n] = ExpireKeys(@, now)]
    /\ UNCHANGED <<tableVars, now, netVars, procVars, hist, calls, panicked, confVars>>

\* ht.GetRandomIDFromBucket(b): an ID that falls into bucket b
RandomIDsFromBucket(n, b) ==
    {id \in IDs : GetBucketIndexFromDifferingBit(id, OriginID(n)) = b}

TimerThread(n) == <<n, "timer", 0>>

\* case <-ticker.C, when a bucket is due for a refresh or a key is ready to
\* replicate: keys := dht.store.GetKeysReadyToReplicate(), and the loop over
\* the buckets begins
TickStart(n) ==
    LET t == TimerThread(n) IN
    /\ op[t].pc = "idle"
    /\ calls < RefreshTicks
    /\ RefreshDue(n) # {} \/ GetKeysReadyToReplicate(kv[n], now) # {}
    /\ calls' = calls + 1
    /\ op' = [op EXCEPT ![t] = [NoOp EXCEPT !.name = "tick", !.pc = "refresh",
                                            !.keys = GetKeysReadyToReplicate(kv[n], now)]]
    /\ UNCHANGED <<tableVars, kv, now, netVars, an, it, wk, dp, hist, panicked, confVars>>

\* for i := 0; i < routing.KeyBitSize; i++: a bucket whose refresh time is
\* older than RefreshTime starts an iterative Bootstrap for
\* ht.GetRandomIDFromBucket(routing.MaxContactsInBucket)
TickRefresh(n) ==
    LET t == TimerThread(n) IN
    /\ op[t].name = "tick" /\ op[t].pc = "refresh"
    /\ IF op[t].i = IDBits
       THEN op' = [op EXCEPT ![t].pc = "replicate"] /\ UNCHANGED it
       ELSE IF op[t].i \in RefreshDue(n)
       THEN \E id \in RandomIDsFromBucket(n, MaxContactsInBucket) :
                /\ it' = [it EXCEPT ![t] = IterEnter("Bootstrap", id, NoValue)]
                /\ op' = [op EXCEPT ![t].pc = "refreshing"]
       ELSE op' = [op EXCEPT ![t].i = @ + 1] /\ UNCHANGED it
    /\ UNCHANGED <<tableVars, kv, now, netVars, an, wk, dp, hist, calls, panicked, confVars>>

\* dht.iterate has returned: the next bucket
TickRefreshed(n) ==
    LET t == TimerThread(n) IN
    /\ op[t].name = "tick" /\ op[t].pc = "refreshing"
    /\ it[t].pc = "ret"
    /\ it' = [it EXCEPT ![t] = NoIter]
    /\ op' = [op EXCEPT ![t].pc = "refresh", ![t].i = @ + 1]
    /\ UNCHANGED <<tableVars, kv, now, netVars, an, wk, dp, hist, calls, panicked, confVars>>

\* for _, key := range keys: an iterative Store of the value the store holds
TickReplicate(n) ==
    LET t == TimerThread(n) IN
    /\ op[t].name = "tick" /\ op[t].pc = "replicate"
    /\ \E key \in op[t].keys :
           /\ it' = [it EXCEPT ![t] = IterEnter("Store", key, Retrieve(kv[n], key))]
           /\ op' = [op EXCEPT ![t].pc = "replicating", ![t].keys = @ \ {key}]
    /\ UNCHANGED <<tableVars, kv, now, netVars, an, wk, dp, hist, calls, panicked, confVars>>

TickReplicated(n) ==
    LET t == TimerThread(n) IN
    /\ op[t].name = "tick" /\ op[t].pc = "replicating"
    /\ it[t].pc = "ret"
    /\ it' = [it EXCEPT ![t] = NoIter]
    /\ op' = [op EXCEPT ![t].pc = "replicate"]
    /\ UNCHANGED <<tableVars, kv, now, netVars, an, wk, dp, hist, calls, panicked, confVars>>

\* dht.store.ExpireKeys(), and the tick is over
TickExpire(n) ==
    LET t == TimerThread(n) IN
    /\ op[t].name = "tick" /\ op[t].pc = "replicate"
    /\ op[t].keys = {}
    /\ kv' = [kv EXCEPT ![n] = ExpireKeys(@, now)]
    /\ op' = [op EXCEPT ![t] = NoOp]
    /\ UNCHANGED <<tableVars, now, netVars, an, it, wk, dp, hist, calls, panicked, confVars>>

\* a second passes
Advance ==
    /\ now < MaxTime
    /\ now' = now + 1
    /\ UNCHANGED <<tableVars, kv, netVars, procVars, hist, calls, panicked, confVars>>

\* ------------------------------------------------------------------ Listen and Disconnect
\* The loops of a node: handleDisconnect (hd) with its multiplexCount and the
\* stop signals it has still to send, handleMessages (msgs), handleStoreTimers
\* (tmr), and the transport (tr). A loop is not launched ("none"), blocked in
\* start <- true ("start"), in its select ("loop"), or has returned ("done").
NoLoops == [hd |-> "none", multiplexCount |-> 0, i |-> 0, msgs |-> "none", tmr |-> "none",
            tr |-> "new"]

\* the loops of a node that listens, after both have registered their start
Listening == [hd |-> "select", multiplexCount |-> 2, i |-> 0, msgs |-> "loop",
              tmr |-> "loop", tr |-> "started"]

LoopNames == {"msgs", "tmr"}

\* DHT.Listen: the three goroutines are launched and the transport starts
Listen(n) ==
    /\ lp[n] = NoLoops
    /\ lp' = [lp EXCEPT ![n] = [NoLoops EXCEPT !.hd = "select", !.msgs = "start",
                                               !.tmr = "start", !.tr = "started"]]
    /\ UNCHANGED <<tableVars, kv, now, netVars, procVars, hist, calls, panicked, alive,
                   seeds>>

\* start <- true in a loop meets case <-start in handleDisconnect:
\* multiplexCount++
RegisterStart(n, l) ==
    /\ lp[n][l] = "start"
    /\ lp[n].hd = "select"
    /\ lp' = [lp EXCEPT ![n][l] = "loop", ![n].multiplexCount = @ + 1]
    /\ UNCHANGED <<tableVars, kv, now, netVars, procVars, hist, calls, panicked, alive,
                   seeds>>

\* DHT.Disconnect: dht.transport.Stop()
Disconnect(n) ==
    /\ lp[n].tr = "started"
    /\ lp' = [lp EXCEPT ![n].tr = "stopped"]
    /\ UNCHANGED <<tableVars, kv, now, netVars, procVars, hist, calls, panicked, alive,
                   seeds>>

\* case <-dht.transport.Stopped() in handleDisconnect
HandleDisconnectStopped(n) ==
    /\ lp[n].hd = "select"
    /\ lp[n].tr = "stopped"
    /\ lp' = [lp EXCEPT ![n].hd = "stopping", ![n].i = lp[n].multiplexCount]
    /\ UNCHANGED <<tableVars, kv, now, netVars, procVars, hist, calls, panicked, alive,
                   seeds>>

\* stop <- true in handleDisconnect meets case <-stop in a loop that is in its
\* select: the loop returns
StopLoop(n, l) ==
    /\ lp[n].hd = "stopping"
    /\ lp[n].i > 0
    /\ lp[n][l] = "loop"
    /\ l = "msgs" => dp[n].pc = "idle"
    /\ lp' = [lp EXCEPT ![n][l] = "done", ![n].i = @ - 1]
    /\ UNCHANGED <<tableVars, kv, now, netVars, procVars, hist, calls, panicked, alive,
                   seeds>>

\* dht.transport.Close(); return
HandleDisconnectClose(n) ==
    /\ lp[n].hd = "stopping"
    /\ lp[n].i = 0
    /\ lp' = [lp EXCEPT ![n].hd = "done", ![n].tr = "closed"]
    /\ UNCHANGED <<tableVars, kv, now, netVars, procVars, hist, calls, panicked, alive,
                   seeds>>

\* ------------------------------------------------------------------ public interface
UserThread(n) == <<n, "user", 0>>

Idle(t) == op[t].pc = "idle" /\ calls < MaxCalls

\* what a call that has returned leaves in hist
Outcome(name, n, str, d, boot) ==
    [op |-> name, node |-> n, str |-> str, data |-> d, boot |-> boot]

\* the Bootstrap of a node that has seeds has returned
Bootstrapped == \E h \in hist : h.op = "Bootstrap" /\ seeds[h.node] # <<>>

\* DHT.Store up to the call of iterate: the data is stored locally as the
\* publisher's, and an iterative Store starts
StoreCall(t, d) ==
    LET n == NodeOf(t) IN
    /\ Idle(t)
    /\ htLock[n] = NoThread
    /\ calls' = calls + 1
    /\ kv' = [kv EXCEPT ![n][NewKey(d)] = StoreEntry(n, d, TRUE)]
    /\ it' = [it EXCEPT ![t] = IterEnter("Store", NewKey(d), d)]
    /\ op' = [op EXCEPT ![t] = [NoOp EXCEPT !.name = "Store", !.pc = "iter", !.data = d,
                                            !.key = NewKey(d), !.boot = Bootstrapped]]
    /\ UNCHANGED <<tableVars, now, netVars, an, wk, dp, hist, panicked, confVars>>

\* str := base58.Encode(key); return str, nil
StoreReturn(t) ==
    /\ op[t].name = "Store" /\ op[t].pc = "iter"
    /\ it[t].pc = "ret"
    /\ it' = [it EXCEPT ![t] = NoIter]
    /\ op' = [op EXCEPT ![t] = NoOp]
    /\ hist' = hist \cup {Outcome("Store", NodeOf(t),
                                   Base58Encode(IDToBytes(op[t].key)), op[t].data,
                                   op[t].boot)}
    /\ UNCHANGED <<tableVars, kv, now, netVars, an, wk, dp, calls, panicked, confVars>>

\* (the length of the decoded key is not tested)
GetCallWithoutLengthCheck(t, str) ==
    LET n == NodeOf(t)
        key == BytesToNat(Base58Decode(str))
        call == [NoOp EXCEPT !.name = "Get", !.arg = str, !.key = key, !.seen = hist]
    IN
    /\ Idle(t)
    /\ calls' = calls + 1
    /\ IF Retrieve(kv[n], key) # NoValue
       THEN op' = [op EXCEPT ![t] = [call EXCEPT !.pc = "ret", !.exists = TRUE,
                                                 !.value = Retrieve(kv[n], key)]]
            /\ UNCHANGED it
       ELSE op' = [op EXCEPT ![t] = [call EXCEPT !.pc = "iter"]]
            /\ it' = [it EXCEPT ![t] = IterEnter("FindValue", key, NoValue)]
    /\ UNCHANGED <<tableVars, kv, now, netVars, an, wk, dp, hist, panicked, confVars>>

\* DHT.Get up to the call of iterate: a key of the wrong length is an error, a
\* key of the local store is answered from it
GetCall(t, str) ==
    LET n == NodeOf(t)
        keyBytes == Base58Decode(str)
        key == BytesToNat(keyBytes)
        call == [NoOp EXCEPT !.name = "Get", !.arg = str, !.key = key,
                             !.seen = hist]
    IN
    /\ Idle(t)
    /\ calls' = calls + 1
    /\ IF Len(keyBytes) # KeyBytes
       THEN op' = [op EXCEPT ![t] = [call EXCEPT !.pc = "ret", !.err = "invalid key"]]
            /\ UNCHANGED it
       ELSE IF Retrieve(kv[n], key) # NoValue
       THEN op' = [op EXCEPT ![t] = [call EXCEPT !.pc = "ret", !.exists = TRUE,
                                                 !.value = Retrieve(kv[n], key)]]
            /\ UNCHANGED it
       ELSE op' = [op EXCEPT ![t] = [call EXCEPT !.pc = "iter"]]
            /\ it' = [it EXCEPT ![t] = IterEnter("FindValue", key, NoValue)]
    /\ UNCHANGED <<tableVars, kv, now, netVars, an, wk, dp, hist, panicked, confVars>>

\* value, _, err = dht.iterate(...); if value != nil { exists = true }
GetReturn(t) ==
    /\ op[t].name = "Get" /\ op[t].pc = "iter"
    /\ it[t].pc = "ret"
    /\ it' = [it EXCEPT ![t] = NoIter]
    /\ op' = [op EXCEPT ![t].pc = "ret", ![t].value = it[t].value,
                        ![t].exists = it[t].value # NoValue]
    /\ UNCHANGED <<tableVars, kv, now, netVars, an, wk, dp, hist, calls, panicked,
                   confVars>>

\* DHT.FindNode up to the call of iterate: the origin's own ID and an ID that
\* is the nearest contact of the routing table are answered at once
\* (rpc: the call is the one RemoteProcedureCall makes first)
FindNodeEnter(t, str, rpc) ==
    LET n == NodeOf(t)
        keyBytes == Base58Decode(str)
        key == BytesToNat(keyBytes)
        routeSet == GetClosestContacts(rt[n], 1, key, {})
        call == [NoOp EXCEPT !.name = "FindNode", !.arg = str, !.key = key,
                             !.seen = hist, !.boot = Bootstrapped, !.rpc = rpc]
    IN
    /\ Idle(t)
    /\ (Len(keyBytes) = KeyBytes /\ OriginID(n) # key) => htLock[n] = NoThread
    /\ calls' = calls + 1
    /\ IF Len(keyBytes) # KeyBytes
       THEN op' = [op EXCEPT ![t] = [call EXCEPT !.pc = "ret", !.err = "invalid key"]]
            /\ UNCHANGED it
       ELSE IF OriginID(n) = key
       THEN op' = [op EXCEPT ![t] = [call EXCEPT !.pc = "ret", !.exists = TRUE,
                                                 !.node = OriginID(n)]]
            /\ UNCHANGED it
       ELSE IF routeSet # <<>> /\ routeSet[1] = key
       THEN op' = [op EXCEPT ![t] = [call EXCEPT !.pc = "ret", !.exists = TRUE,
                                                 !.node = routeSet[1]]]
            /\ UNCHANGED it
       ELSE op' = [op EXCEPT ![t] = [call EXCEPT !.pc = "iter"]]
            /\ it' = [it EXCEPT ![t] = IterEnter("FindNode", key, NoValue)]
    /\ UNCHANGED <<tableVars, kv, now, netVars, an, wk, dp, hist, panicked, confVars>>

FindNodeCall(t, str) == FindNodeEnter(t, str, FALSE)

\* (the first node of closest is returned without comparing its ID)
FindNodeReturnFirst(t) ==
    LET closest == it[t].closest
        found == closest # <<>>
    IN
    /\ op[t].name = "FindNode" /\ op[t].pc = "iter"
    /\ it[t].pc = "ret"
    /\ it' = [it EXCEPT ![t] = NoIter]
    /\ op' = [op EXCEPT ![t].pc = "ret", ![t].exists = found,
                        ![t].node = IF found THEN closest[1] ELSE NilID]
    /\ UNCHANGED <<tableVars, kv, now, netVars, an, wk, dp, hist, calls, panicked,
                   confVars>>

\* if len(closest) > 0 && closest[0].ID.Equal(keyBytes)
FindNodeReturn(t) ==
    LET closest == it[t].closest
        found == closest # <<>> /\ closest[1] = op[t].key
    IN
    /\ op[t].name = "FindNode" /\ op[t].pc = "iter"
    /\ it[t].pc = "ret"
    /\ it' = [it EXCEPT ![t] = NoIter]
    /\ op' = [op EXCEPT ![t].pc = "ret", ![t].exists = found,
                        ![t].node = IF found THEN closest[1] ELSE NilID]
    /\ UNCHANGED <<tableVars, kv, now, netVars, an, wk, dp, hist, calls, panicked,
                   confVars>>

\* the caller has the result of Get or FindNode
\* (hist keeps what Store and Bootstrap returned; op keeps, for a call of Get
\* or FindNode, the hist it was made after)
CallDone(t) ==
    /\ op[t].pc = "ret"
    /\ ~op[t].rpc
    /\ op' = [op EXCEPT ![t] = NoOp]
    /\ UNCHANGED <<tableVars, kv, now, netVars, an, it, wk, dp, hist, calls, panicked,
                   confVars>>

\* ------------------------------------------------------------------ RemoteProcedureCall
\* targetNode, exists, err := dht.FindNode(ctx, target)
RpcCall(t, str) == FindNodeEnter(t, str, TRUE)

RpcFound(t) == op[t].rpc /\ op[t].pc = "ret" /\ op[t].err = "" /\ op[t].exists

\* the target is the origin's own ID
RpcToSelf(t) == op[t].arg = Base58Encode(IDToBytes(OriginID(NodeOf(t))))

\* if err != nil { return nil, err }; if !exists { return nil, errors.New(...) }
RpcNotFound(t) ==
    /\ op[t].rpc /\ op[t].pc = "ret"
    /\ ~(op[t].err = "" /\ op[t].exists)
    /\ op' = [op EXCEPT ![t].pc = "rpcret", ![t].name = "RPC",
                        ![t].err = IF op[t].err # "" THEN op[t].err
                                   ELSE "targetNode not found"]
    /\ UNCHANGED <<tableVars, kv, now, netVars, an, it, wk, dp, hist, calls, panicked,
                   confVars>>

\* if target == dht.GetOriginID(ctx): the procedure is invoked locally, and
\* returns a result or an error
RpcLocal(t, result) ==
    /\ RpcFound(t) /\ RpcToSelf(t)
    /\ op' = [op EXCEPT ![t].pc = "rpcret", ![t].name = "RPC", ![t].value = result,
                        ![t].err = IF result = NoValue THEN "handler" ELSE ""]
    /\ UNCHANGED <<tableVars, kv, now, netVars, an, it, wk, dp, hist, calls, panicked,
                   confVars>>

\* future, err := dht.transport.SendRequest(request)
RpcSend(t) ==
    LET n == NodeOf(t)
        sent == SendAll(futs, net, n,
                        <<Message(OriginID(n), op[t].node, op[t].node, "RPC", 0, NoValue)>>,
                        <<>>)
    IN
    /\ RpcFound(t) /\ ~RpcToSelf(t)
    /\ FreeReqs # {}
    /\ futs' = sent.futs
    /\ net' = sent.net
    /\ op' = [op EXCEPT ![t].pc = "rpcwait", ![t].name = "RPC", ![t].req = sent.reqs[1]]
    /\ UNCHANGED <<tableVars, kv, now, an, it, wk, dp, hist, calls, panicked, confVars>>

\* if err != nil { return nil, err }
RpcSendFails(t) ==
    /\ RpcFound(t) /\ ~RpcToSelf(t)
    /\ op' = [op EXCEPT ![t].pc = "rpcret", ![t].name = "RPC", ![t].err = "send"]
    /\ UNCHANGED <<tableVars, kv, now, netVars, an, it, wk, dp, hist, calls, panicked,
                   confVars>>

\* case rsp := <-future.Result(): dht.addNode(ctx, routing.NewRouteNode(rsp.Sender))
RpcResult(t) ==
    LET r == op[t].req IN
    /\ op[t].pc = "rpcwait"
    /\ futs[r].st = "resolved"
    /\ futs' = Cancel(futs, r)
    /\ an' = [an EXCEPT ![t] = AddNodeEnter(t, futs[r].resp.sender)]
    /\ op' = [op EXCEPT ![t].pc = "rpcadd", ![t].rsp = futs[r].resp]
    /\ UNCHANGED <<tableVars, kv, now, net, it, wk, dp, hist, calls, panicked, confVars>>

\* if response.Success { return response.Result, nil }
\* return nil, errors.New(response.Error)
RpcAdded(t) ==
    /\ op[t].pc = "rpcadd"
    /\ an[t].pc = "done"
    /\ an' = [an EXCEPT ![t] = NoFrame]
    /\ op' = [op EXCEPT ![t].pc = "rpcret",
                        ![t].value = IF op[t].rsp.err THEN NoValue ELSE op[t].rsp.value,
                        ![t].err = IF op[t].rsp.err THEN "handler" ELSE ""]
    /\ UNCHANGED <<tableVars, kv, now, netVars, it, wk, dp, hist, calls, panicked, confVars>>

\* if rsp == nil: the channel was closed
RpcClosed(t) ==
    LET r == op[t].req IN
    /\ op[t].pc = "rpcwait"
    /\ futs[r].st = "closed"
    /\ futs' = Cancel(futs, r)
    /\ op' = [op EXCEPT ![t].pc = "rpcret", ![t].err = "chanel closed unexpectedly"]
    /\ UNCHANGED <<tableVars, kv, now, net, an, it, wk, dp, hist, calls, panicked, confVars>>

\* (the future is left in the registry)
RpcTimeoutWithoutCancel(t) ==
    /\ op[t].pc = "rpcwait"
    /\ op' = [op EXCEPT ![t].pc = "rpcret", ![t].err = "timeout"]
    /\ UNCHANGED <<tableVars, kv, now, netVars, an, it, wk, dp, hist, calls, panicked,
                   confVars>>

\* case <-time.After(dht.options.MessageTimeout): future.Cancel()
RpcTimeout(t) ==
    /\ op[t].pc = "rpcwait"
    /\ futs' = Cancel(futs, op[t].req)
    /\ op' = [op EXCEPT ![t].pc = "rpcret", ![t].err = "timeout"]
    /\ UNCHANGED <<tableVars, kv, now, net, an, it, wk, dp, hist, calls, panicked, confVars>>

\* the caller has the outcome
RpcReturn(t) ==
    /\ op[t].pc = "rpcret"
    /\ op' = [op EXCEPT ![t] = NoOp]
    /\ UNCHANGED <<tableVars, kv, now, netVars, an, it, wk, dp, hist, calls, panicked,
                   confVars>>

\* DHT.Bootstrap: without seeds it returns at once
BootstrapCall(t) ==
    LET n == NodeOf(t) IN
    /\ Idle(t)
    /\ calls' = calls + 1
    /\ op' = [op EXCEPT ![t] = [NoOp EXCEPT !.name = "Bootstrap", !.i = 1,
                                            !.pc = IF seeds[n] = <<>> THEN "bootret"
                                                   ELSE "boot"]]
    /\ UNCHANGED <<tableVars, kv, now, netVars, an, it, wk, dp, hist, panicked, confVars>>

\* the state of the loop over the seeds after seed i
BootNext(n, o) ==
    [o EXCEPT !.i = o.i + 1, !.pc = IF o.i + 1 > Len(seeds[n]) THEN "bootwait" ELSE "boot"]

\* if bn.ID == nil: the seed is pinged, wg.Add(1)
BootSeedPing(t) ==
    LET n == NodeOf(t)
        bn == seeds[n][op[t].i]
        sent == SendAll(futs, net, n,
                        <<Message(OriginID(n), bn.addr, bn.id, "Ping", 0, NoValue)>>, <<>>)
    IN
    /\ op[t].name = "Bootstrap" /\ op[t].pc = "boot"
    /\ bn.id = NilID
    /\ FreeReqs # {}
    /\ futs' = sent.futs
    /\ net' = sent.net
    /\ wk' = [wk EXCEPT ![<<n, "work", sent.reqs[1]>>] =
                 [NoWorker EXCEPT !.pc = "wait", !.parent = t, !.kind = "boot",
                                  !.req = sent.reqs[1]]]
    /\ op' = [op EXCEPT ![t] = [BootNext(n, op[t]) EXCEPT !.wg = op[t].wg + 1]]
    /\ UNCHANGED <<tableVars, kv, now, an, it, dp, hist, calls, panicked, confVars>>

\* if bn.ID == nil and SendRequest fails: continue
BootSeedPingFails(t) ==
    LET n == NodeOf(t) IN
    /\ op[t].name = "Bootstrap" /\ op[t].pc = "boot"
    /\ seeds[n][op[t].i].id = NilID
    /\ op' = [op EXCEPT ![t] = BootNext(n, op[t])]
    /\ UNCHANGED <<tableVars, kv, now, netVars, an, it, wk, dp, hist, calls, panicked,
                   confVars>>

\* else: dht.addNode(ctx, routing.NewRouteNode(bn))
BootSeedAdd(t) ==
    LET n == NodeOf(t) IN
    /\ op[t].name = "Bootstrap" /\ op[t].pc = "boot"
    /\ seeds[n][op[t].i].id # NilID
    /\ an' = [an EXCEPT ![t] = AddNodeEnter(t, seeds[n][op[t].i].id)]
    /\ op' = [op EXCEPT ![t].pc = "bootadd"]
    /\ UNCHANGED <<tableVars, kv, now, netVars, it, wk, dp, hist, calls, panicked, confVars>>

BootSeedAdded(t) ==
    /\ op[t].name = "Bootstrap" /\ op[t].pc = "bootadd"
    /\ an[t].pc = "done"
    /\ an' = [an EXCEPT ![t] = NoFrame]
    /\ op' = [op EXCEPT ![t] = BootNext(NodeOf(t), op[t])]
    /\ UNCHANGED <<tableVars, kv, now, netVars, it, wk, dp, hist, calls, panicked, confVars>>

\* (Bootstrap returns after wg.Wait() without iterating)
BootIterateSkipped(t) ==
    /\ op[t].name = "Bootstrap" /\ op[t].pc = "bootwait"
    /\ op[t].wg = 0
    /\ op' = [op EXCEPT ![t].pc = "bootret"]
    /\ UNCHANGED <<tableVars, kv, now, netVars, an, it, wk, dp, hist, calls, panicked, confVars>>

\* wg.Wait(); if dht.NumNodes(ctx) > 0 an iterative Bootstrap for the origin's
\* own ID starts
BootIterate(t) ==
    LET n == NodeOf(t) IN
    /\ op[t].name = "Bootstrap" /\ op[t].pc = "bootwait"
    /\ op[t].wg = 0
    /\ htLock[n] = NoThread
    /\ IF TotalNodes(rt[n]) > 0
       THEN /\ it' = [it EXCEPT ![t] = IterEnter("Bootstrap", OriginID(n), NoValue)]
            /\ op' = [op EXCEPT ![t].pc = "iter"]
       ELSE /\ op' = [op EXCEPT ![t].pc = "bootret"]
            /\ UNCHANGED it
    /\ UNCHANGED <<tableVars, kv, now, netVars, an, wk, dp, hist, calls, panicked, confVars>>

BootstrapReturn(t) ==
    /\ op[t].name = "Bootstrap"
    /\ op[t].pc = "bootret" \/ (op[t].pc = "iter" /\ it[t].pc = "ret")
    /\ it' = [it EXCEPT ![t] = NoIter]
    /\ op' = [op EXCEPT ![t] = NoOp]
    /\ hist' = hist \cup {Outcome("Bootstrap", NodeOf(t), <<>>, NoValue, FALSE)}
    /\ UNCHANGED <<tableVars, kv, now, netVars, an, wk, dp, calls, panicked, confVars>>

\* ------------------------------------------------------------------ SpecNet: two nodes
\* Node A runs without seeds and node B with A as its only seed (by address
\* alone, or with its ID). The transport delivers every request, and every
\* response arrives before the timeout of its future.
\* the key strings the calls are made with: the keys of the data, and the IDs
\* of the nodes
KeyStrings == {Base58Encode(IDToBytes(k)) : k \in Keys}

NodeStrings == {Base58Encode(IDToBytes(OriginID(n))) : n \in Nodes}

\* strings that do not decode to KeyBytes bytes: the empty string, and one that
\* spells one zero byte too many
InvalidStrings == {<<>>, Zeros(KeyBytes + 1)}

InitNet ==
    /\ rt = [n \in Nodes |-> [i \in Buckets |-> <<>>]]
    /\ htLock = [n \in Nodes |-> NoThread]
    /\ refresh = [n \in Nodes |-> [i \in Buckets |-> 0]]
    /\ kv = [n \in Nodes |-> [k \in Keys |-> NoEntry]]
    /\ now = 0
    /\ futs = [r \in ReqIDs |-> NoFut]
    /\ net = {}
    /\ an = [t \in Threads |-> NoFrame]
    /\ it = [t \in Threads |-> NoIter]
    /\ wk = [t \in Threads |-> NoWorker]
    /\ dp = [n \in Nodes |-> NoDisp]
    /\ op = [t \in Threads |-> NoOp]
    /\ hist = {}
    /\ calls = 0
    /\ panicked = {}
    /\ alive = {"A", "B"}
    /\ lp = [n \in Nodes |-> Listening]
    /\ \E id \in {NilID, OriginID("A")} :
           seeds = [n \in Nodes |-> IF n = "B" THEN <<[addr |-> OriginID("A"), id |-> id]>>
                                    ELSE <<>>]

\* the calls of the public interface are made one at a time, as the example
\* program makes them
NoCallInProgress == \A n \in Nodes : op[UserThread(n)].pc = "idle"

Runs(t) == Running(NodeOf(t))

UserThreads == {UserThread(n) : n \in Nodes}

NextNet ==
    \/ \E t \in UserThreads : Runs(t) /\ NoCallInProgress /\ BootstrapCall(t)
    \/ \E t \in UserThreads : \E d \in Data : Runs(t) /\ NoCallInProgress /\ StoreCall(t, d)
    \/ \E t \in UserThreads : \E str \in KeyStrings \cup InvalidStrings :
           Runs(t) /\ NoCallInProgress /\ GetCall(t, str)
    \/ \E t \in UserThreads : \E str \in NodeStrings \cup InvalidStrings :
           Runs(t) /\ NoCallInProgress /\ FindNodeCall(t, str)
    \/ \E t \in UserThreads : Runs(t) /\ BootSeedPing(t)
    \/ \E t \in UserThreads : Runs(t) /\ BootSeedAdd(t)
    \/ \E t \in UserThreads : Runs(t) /\ BootSeedAdded(t)
    \/ \E t \in UserThreads : Runs(t) /\ BootIterate(t)
    \/ \E t \in UserThreads : Runs(t) /\ BootstrapReturn(t)
    \/ \E t \in UserThreads : Runs(t) /\ StoreReturn(t)
    \/ \E t \in UserThreads : Runs(t) /\ GetReturn(t)
    \/ \E t \in UserThreads : Runs(t) /\ FindNodeReturn(t)
    \/ \E t \in UserThreads : Runs(t) /\ CallDone(t)
    \/ \E t \in UserThreads : Runs(t) /\ IterStart(t)
    \/ \E t \in UserThreads : Runs(t) /\ IterSend(t, {})
    \/ \E t \in UserThreads : \E w \in Threads : Runs(t) /\ IterCollect(t, w)
    \/ \E t \in UserThreads : Runs(t) /\ IterDecide(t)
    \/ \E t \in UserThreads : Runs(t) /\ IterStoreSend(t)
    \/ \E t \in Threads : Runs(t) /\ AddNodeCheck(t)
    \/ \E t \in Threads : Runs(t) /\ AddNodeMark(t)
    \/ \E t \in Threads : Runs(t) /\ AddNodeAppend(t)
    \/ \E w \in Threads : Runs(w) /\ WorkerResult(w)
    \/ \E w \in Threads : Runs(w) /\ WorkerAdded(w)
    \/ \E n \in Nodes : \E m \in net : Running(n) /\ DispReceive(n, m)
    \/ \E n \in Nodes : Running(n) /\ DispFinish(n)
    \/ \E n \in Nodes : Running(n) /\ TimerTickIdle(n)

SpecNet == InitNet /\ [][NextNet]_vars

\* ------------------------------------------------------------------ peers of the environment
\* A peer that is not a running node answers a Ping.
PeerAnswersPing(m) ==
    /\ m \in net
    /\ m.type = "Ping"
    /\ ~IsNode(m.at)
    /\ ~m.isResponse
    /\ net' = net \ {m}
    /\ futs' = Resolve(futs, m.req, Response(m.to, <<>>, NoValue, FALSE))
    /\ UNCHANGED <<tableVars, kv, now, procVars, hist, calls, panicked, confVars>>

\* the request is lost, or the peer is gone
RequestLost(m) ==
    /\ m \in net
    /\ ~IsNode(m.at)
    /\ ~m.isResponse
    /\ net' = net \ {m}
    /\ futs' = [futs EXCEPT ![m.req] = IF @.st = "abandoned" THEN NoFut ELSE @]
    /\ UNCHANGED <<tableVars, kv, now, procVars, hist, calls, panicked, confVars>>

\* the nodes of S in the order of their distance to key
RECURSIVE SortedSeqOf(_, _)
SortedSeqOf(S, key) ==
    IF S = {} THEN <<>>
    ELSE LET x == CHOOSE y \in S : \A z \in S : Distance(y, key) <= Distance(z, key)
         IN  <<x>> \o SortedSeqOf(S \ {x}, key)

\* A peer that is not a running node answers a FindNode or a FindValue as a
\* node whose routing table holds the peers in S does: with the value, or with
\* the nearest K contacts that are not the requester.
PeerAnswers(m, S, v) ==
    /\ m \in net
    /\ m.type \in {"FindNode", "FindValue"}
    /\ ~IsNode(m.at)
    /\ ~m.isResponse
    /\ m.to \notin S
    /\ v # NoValue => (m.type = "FindValue" /\ NewKey(v) = m.target)
    /\ net' = net \ {m}
    /\ futs' = Resolve(futs, m.req,
                       IF v # NoValue THEN Response(m.to, <<>>, v, FALSE)
                       ELSE Response(m.to,
                                     Take(SortedSeqOf(S \ {m.from}, m.target),
                                          MaxContactsInBucket),
                                     NoValue, FALSE))
    /\ UNCHANGED <<tableVars, kv, now, procVars, hist, calls, panicked, confVars>>

\* the peer answers with an error
PeerAnswersError(m) ==
    /\ m \in net
    /\ m.type \in {"FindNode", "FindValue"}
    /\ ~IsNode(m.at)
    /\ ~m.isResponse
    /\ net' = net \ {m}
    /\ futs' = Resolve(futs, m.req, Response(m.to, <<>>, NoValue, TRUE))
    /\ UNCHANGED <<tableVars, kv, now, procVars, hist, calls, panicked, confVars>>

\* the peer runs the procedure and answers with its result, or with its error
PeerAnswersRpc(m, result) ==
    /\ m \in net
    /\ m.type = "RPC"
    /\ ~IsNode(m.at)
    /\ ~m.isResponse
    /\ net' = net \ {m}
    /\ futs' = Resolve(futs, m.req, Response(m.to, <<>>, result, result = NoValue))
    /\ UNCHANGED <<tableVars, kv, now, procVars, hist, calls, panicked, confVars>>

\* the transport closes the result channel of a pending future without a
\* message
FutureClosed(r) ==
    /\ futs[r].st = "pending"
    /\ futs' = [futs EXCEPT ![r].st = "closed"]
    /\ UNCHANGED <<tableVars, kv, now, net, procVars, hist, calls, panicked, confVars>>

\* ------------------------------------------------------------------ SpecLookup: one node
\* Node A runs among peers of the environment, which answer, answer with an
\* error, or do not answer; sends fail and waits time out. A starts with any
\* routing table over the peers, and FindNode is called.
\* (three IDs of A's bucket 0: those whose first bit differs from A's)
LookupPeers == {2 ^ (IDBits - 1), 2 ^ (IDBits - 1) + 1, 2 ^ IDBits - 1}

\* the IDs FindNode is called with: A's own, a peer's, and one no peer has
LookupTargets == {OriginID("A"), 2 ^ IDBits - 2, 2 ^ IDBits - 1}

LookupStrings == {Base58Encode(IDToBytes(i)) : i \in LookupTargets}

\* the buckets over the peers: no ID twice, no more than K entries
LookupBuckets ==
    {<<>>} \cup {<<x>> : x \in LookupPeers}
           \cup {<<p[1], p[2]>> : p \in {q \in LookupPeers \X LookupPeers : q[1] # q[2]}}

\* a node that runs alone, with the given routing table
InitAlone(table) ==
    /\ rt = [n \in Nodes |-> IF n = "A" THEN table ELSE [i \in Buckets |-> <<>>]]
    /\ htLock = [n \in Nodes |-> NoThread]
    /\ refresh = [n \in Nodes |-> [i \in Buckets |-> 0]]
    /\ kv = [n \in Nodes |-> [k \in Keys |-> NoEntry]]
    /\ now = 0
    /\ futs = [r \in ReqIDs |-> NoFut]
    /\ net = {}
    /\ an = [t \in Threads |-> NoFrame]
    /\ it = [t \in Threads |-> NoIter]
    /\ wk = [t \in Threads |-> NoWorker]
    /\ dp = [n \in Nodes |-> NoDisp]
    /\ op = [t \in Threads |-> NoOp]
    /\ hist = {}
    /\ calls = 0
    /\ panicked = {}
    /\ alive = {"A"}
    /\ seeds = [n \in Nodes |-> <<>>]
    /\ lp = [n \in Nodes |-> IF n = "A" THEN Listening ELSE NoLoops]

InitLookup ==
    \E b \in {s \in LookupBuckets : Len(s) <= MaxContactsInBucket} :
        InitAlone([i \in Buckets |-> IF i = 0 THEN b ELSE <<>>])

NextLookup ==
    \/ \E t \in UserThreads : \E str \in LookupStrings :
           Runs(t) /\ calls < LookupCalls /\ FindNodeCall(t, str)
    \/ \E t \in UserThreads : Runs(t) /\ FindNodeReturn(t)
    \/ \E t \in UserThreads : Runs(t) /\ CallDone(t)
    \/ \E t \in UserThreads : Runs(t) /\ IterStart(t)
    \/ \E t \in UserThreads : \E failed \in SUBSET LookupPeers : Runs(t) /\ IterSend(t, failed)
    \/ \E t \in UserThreads : \E w \in Threads : Runs(t) /\ IterCollect(t, w)
    \/ \E t \in UserThreads : Runs(t) /\ IterCollectTimeout(t)
    \/ \E t \in UserThreads : Runs(t) /\ IterDecide(t)
    \/ \E w \in Threads : Runs(w) /\ WorkerResult(w)
    \/ \E w \in Threads : Runs(w) /\ WorkerAdded(w)
    \/ \E w \in Threads : Runs(w) /\ WorkerTimeout(w)
    \/ \E w \in Threads : Runs(w) /\ WorkerOfferClosed(w)
    \/ \E w \in Threads : Runs(w) /\ AddNodeCheck(w)
    \/ \E w \in Threads : Runs(w) /\ AddNodeMark(w)
    \/ \E w \in Threads : Runs(w) /\ AddNodeAppend(w)
    \/ \E w \in Threads : Runs(w) /\ AddNodePing(w)
    \/ \E w \in Threads : Runs(w) /\ AddNodePingSendFails(w)
    \/ \E w \in Threads : Runs(w) /\ AddNodePingReply(w)
    \/ \E w \in Threads : Runs(w) /\ AddNodePingTimeout(w)
    \/ \E m \in net : \E S \in SUBSET LookupPeers : PeerAnswers(m, S, NoValue)
    \/ \E m \in net : PeerAnswersError(m)
    \/ \E m \in net : PeerAnswersPing(m)
    \/ \E m \in net : RequestLost(m)

SpecLookup == InitLookup /\ [][NextLookup]_vars

\* ------------------------------------------------------------------ SpecStore: one node
\* Node A runs among peers of the environment that are out of reach: its
\* requests are lost, and its waits time out. A starts with an empty, a sparse
\* or a dense routing table; Store and Get are called, the timer ticks, and
\* the clock is followed between the calls.
StoreTables ==
    LET far == <<2 ^ (IDBits - 1), 2 ^ IDBits - 1>>
        near == <<2 ^ (IDBits - 2), 2 ^ (IDBits - 2) + 1>>
    IN  {[i \in Buckets |-> <<>>],
         [i \in Buckets |-> IF i = 0 THEN <<far[1]>> ELSE <<>>],
         [i \in Buckets |-> IF i = 0 THEN far ELSE IF i = 1 THEN near ELSE <<>>]}

InitStore == \E table \in StoreTables : InitAlone(table)

NextStore ==
    \/ \E t \in UserThreads : \E d \in Data : Runs(t) /\ calls < StoreCalls /\ StoreCall(t, d)
    \/ \E t \in UserThreads : \E str \in KeyStrings :
           Runs(t) /\ calls < StoreCalls /\ GetCall(t, str)
    \/ \E t \in UserThreads : Runs(t) /\ StoreReturn(t)
    \/ \E t \in UserThreads : Runs(t) /\ GetReturn(t)
    \/ \E t \in UserThreads : Runs(t) /\ CallDone(t)
    \/ \E t \in UserThreads : Runs(t) /\ IterStart(t)
    \/ \E t \in UserThreads : Runs(t) /\ IterSend(t, {})
    \/ \E t \in UserThreads : Runs(t) /\ IterCollectTimeout(t)
    \/ \E t \in UserThreads : Runs(t) /\ IterDecide(t)
    \/ \E t \in UserThreads : Runs(t) /\ IterStoreSend(t)
    \/ \E w \in Threads : Runs(w) /\ WorkerTimeout(w)
    \/ \E m \in net : RequestLost(m)
    \/ \E n \in Nodes : Running(n) /\ TimerTickIdle(n)
    \/ NoCallInProgress /\ Advance

SpecStore == InitStore /\ [][NextStore]_vars

\* ------------------------------------------------------------------ SpecRpc: one node
\* Node A runs among peers of the environment and calls RemoteProcedureCall for
\* its own ID, for a peer of its routing table and for an ID nobody has. A peer
\* runs the procedure and answers with the result or with an error, or the
\* request is lost; the transport may close a future; waits time out.
RpcTables ==
    {[i \in Buckets |-> IF i = 0 THEN <<2 ^ (IDBits - 1)>> ELSE <<>>],
     [i \in Buckets |-> IF i = 0 THEN <<2 ^ (IDBits - 1), 2 ^ IDBits - 1>> ELSE <<>>]}

RpcStrings ==
    {Base58Encode(IDToBytes(i)) : i \in {OriginID("A"), 2 ^ (IDBits - 1), 2 ^ IDBits - 2}}

InitRpc == \E table \in RpcTables : InitAlone(table)

NextRpc ==
    \/ \E t \in UserThreads : \E str \in RpcStrings :
           Runs(t) /\ calls < RpcCalls /\ RpcCall(t, str)
    \/ \E t \in UserThreads : Runs(t) /\ FindNodeReturn(t)
    \/ \E t \in UserThreads : Runs(t) /\ IterStart(t)
    \/ \E t \in UserThreads : Runs(t) /\ IterSend(t, {})
    \/ \E t \in UserThreads : Runs(t) /\ IterCollectTimeout(t)
    \/ \E t \in UserThreads : Runs(t) /\ IterDecide(t)
    \/ \E w \in Threads : Runs(w) /\ WorkerTimeout(w)
    \/ \E t \in UserThreads : Runs(t) /\ RpcNotFound(t)
    \/ \E t \in UserThreads : \E result \in Data \cup {NoValue} : Runs(t) /\ RpcLocal(t, result)
    \/ \E t \in UserThreads : Runs(t) /\ RpcSend(t)
    \/ \E t \in UserThreads : Runs(t) /\ RpcSendFails(t)
    \/ \E t \in UserThreads : Runs(t) /\ RpcResult(t)
    \/ \E t \in UserThreads : Runs(t) /\ RpcAdded(t)
    \/ \E t \in UserThreads : Runs(t) /\ RpcClosed(t)
    \/ \E t \in UserThreads : Runs(t) /\ RpcTimeout(t)
    \/ \E t \in UserThreads : Runs(t) /\ RpcReturn(t)
    \/ \E t \in UserThreads : Runs(t) /\ AddNodeCheck(t)
    \/ \E t \in UserThreads : Runs(t) /\ AddNodeMark(t)
    \/ \E m \in net : \E result \in Data \cup {NoValue} : PeerAnswersRpc(m, result)
    \/ \E m \in net : RequestLost(m)
    \/ \E t \in UserThreads : op[t].pc = "rpcwait" /\ FutureClosed(op[t].req)

SpecRpc == InitRpc /\ [][NextRpc]_vars

\* ------------------------------------------------------------------ SpecIterate: every kind of iteration
\* Node A knows one peer, as its seed or in its routing table, and makes one
\* call that iterates: Bootstrap, FindNode or Get for an ID nobody has, or
\* Store. The peers answer with any closest list over IterPeers, with a value,
\* with an error or not at all; sends fail and waits time out.
IterPeers == {2 ^ (IDBits - 1), 2 ^ (IDBits - 1) + 1}

IterSeed == CHOOSE x \in IterPeers : \A y \in IterPeers : x <= y

InitIterate ==
    \E boot \in BOOLEAN :
        /\ rt = [n \in Nodes |-> [i \in Buckets |->
                    IF n = "A" /\ i = 0 /\ ~boot THEN <<IterSeed>> ELSE <<>>]]
        /\ htLock = [n \in Nodes |-> NoThread]
        /\ refresh = [n \in Nodes |-> [i \in Buckets |-> 0]]
        /\ kv = [n \in Nodes |-> [k \in Keys |-> NoEntry]]
        /\ now = 0
        /\ futs = [r \in ReqIDs |-> NoFut]
        /\ net = {}
        /\ an = [t \in Threads |-> NoFrame]
        /\ it = [t \in Threads |-> NoIter]
        /\ wk = [t \in Threads |-> NoWorker]
        /\ dp = [n \in Nodes |-> NoDisp]
        /\ op = [t \in Threads |-> NoOp]
        /\ hist = {}
        /\ calls = 0
        /\ panicked = {}
        /\ alive = {"A"}
        /\ seeds = [n \in Nodes |->
                       IF n = "A" /\ boot THEN <<[addr |-> IterSeed, id |-> IterSeed]>>
                       ELSE <<>>]
        /\ lp = [n \in Nodes |-> IF n = "A" THEN Listening ELSE NoLoops]

\* the calls of the interface
IterateCalls ==
    \E t \in UserThreads :
        /\ Runs(t)
        /\ calls < LookupCalls
        /\ IF seeds[NodeOf(t)] # <<>> THEN BootstrapCall(t)
           ELSE \/ FindNodeCall(t, Base58Encode(IDToBytes(2 ^ IDBits - 2)))
                \/ \E str \in KeyStrings : GetCall(t, str)
                \/ \E d \in Data : StoreCall(t, d)

\* the steps of the program
IterateSteps ==
    \/ \E t \in UserThreads : Runs(t) /\ BootSeedAdd(t)
    \/ \E t \in UserThreads : Runs(t) /\ BootSeedAdded(t)
    \/ \E t \in UserThreads : Runs(t) /\ BootIterate(t)
    \/ \E t \in UserThreads : Runs(t) /\ BootstrapReturn(t)
    \/ \E t \in UserThreads : Runs(t) /\ FindNodeReturn(t)
    \/ \E t \in UserThreads : Runs(t) /\ GetReturn(t)
    \/ \E t \in UserThreads : Runs(t) /\ StoreReturn(t)
    \/ \E t \in UserThreads : Runs(t) /\ CallDone(t)
    \/ \E t \in UserThreads : Runs(t) /\ IterStart(t)
    \/ \E t \in UserThreads : \E failed \in SUBSET IterPeers : Runs(t) /\ IterSend(t, failed)
    \/ \E t \in UserThreads : \E w \in Threads : Runs(t) /\ IterCollect(t, w)
    \/ \E t \in UserThreads : Runs(t) /\ IterCollectTimeout(t)
    \/ \E t \in UserThreads : Runs(t) /\ IterDecide(t)
    \/ \E t \in UserThreads : Runs(t) /\ IterStoreSend(t)
    \/ \E t \in UserThreads : Runs(t) /\ IterStoreSendFails(t)
    \/ \E w \in Threads : Runs(w) /\ WorkerResult(w)
    \/ \E w \in Threads : Runs(w) /\ WorkerAdded(w)
    \/ \E w \in Threads : Runs(w) /\ WorkerTimeout(w)
    \/ \E w \in Threads : Runs(w) /\ WorkerOfferClosed(w)
    \/ \E w \in Threads : Runs(w) /\ AddNodeCheck(w)
    \/ \E w \in Threads : Runs(w) /\ AddNodeMark(w)
    \/ \E w \in Threads : Runs(w) /\ AddNodeAppend(w)

\* the steps of the peers and of the network
IteratePeers ==
    \/ \E m \in net : \E S \in SUBSET IterPeers : \E v \in Data \cup {NoValue} :
           PeerAnswers(m, S, v)
    \/ \E m \in net : PeerAnswersError(m)
    \/ \E m \in net : RequestLost(m)

NextIterate == IterateCalls \/ IterateSteps \/ IteratePeers

SpecIterate == InitIterate /\ [][NextIterate]_vars

\* ------------------------------------------------------------------ SpecRounds: several rounds
\* Node A, which knows one peer of bucket 0 and one of bucket 1, runs one
\* iteration among four peers, which answer with any closest list, answer with
\* an error, or do not answer: a FindNode for an ID no peer has, or the
\* Bootstrap of its seeds.
RoundPeers == {2 ^ (IDBits - 2), 2 ^ (IDBits - 2) + 1, 2 ^ (IDBits - 1) + 1,
               2 ^ (IDBits - 1) + 2}
RoundKnown == <<2 ^ (IDBits - 1) + 1, 2 ^ (IDBits - 2) + 1>>
\* the tables of the peers: empty, the peers A knows, the peers A does not know
RoundAnswers == {{}, Range(RoundKnown), RoundPeers \ Range(RoundKnown)}

InitRounds ==
    \E boot \in BOOLEAN :
        /\ rt = [n \in Nodes |-> [i \in Buckets |->
                    IF n = "A" /\ i < Len(RoundKnown) /\ ~boot THEN <<RoundKnown[i + 1]>>
                    ELSE <<>>]]
        /\ htLock = [n \in Nodes |-> NoThread]
        /\ refresh = [n \in Nodes |-> [i \in Buckets |-> 0]]
        /\ kv = [n \in Nodes |-> [k \in Keys |-> NoEntry]]
        /\ now = 0
        /\ futs = [r \in ReqIDs |-> NoFut]
        /\ net = {}
        /\ an = [t \in Threads |-> NoFrame]
        /\ it = [t \in Threads |-> NoIter]
        /\ wk = [t \in Threads |-> NoWorker]
        /\ dp = [n \in Nodes |-> NoDisp]
        /\ op = [t \in Threads |-> NoOp]
        /\ hist = {}
        /\ calls = 0
        /\ panicked = {}
        /\ alive = {"A"}
        /\ seeds = [n \in Nodes |->
                       IF n = "A" /\ boot
                       THEN [i \in 1 .. Len(RoundKnown) |->
                                [addr |-> RoundKnown[i], id |-> RoundKnown[i]]]
                       ELSE <<>>]
        /\ lp = [n \in Nodes |-> IF n = "A" THEN Listening ELSE NoLoops]

NextRounds ==
    \/ \E t \in UserThreads :
           /\ Runs(t)
           /\ calls < LookupCalls
           /\ IF seeds[NodeOf(t)] # <<>> THEN BootstrapCall(t)
              ELSE FindNodeCall(t, Base58Encode(IDToBytes(2 ^ IDBits - 1)))
    \/ \E t \in UserThreads : Runs(t) /\ BootSeedAdd(t)
    \/ \E t \in UserThreads : Runs(t) /\ BootSeedAdded(t)
    \/ \E t \in UserThreads : Runs(t) /\ BootIterate(t)
    \/ \E t \in UserThreads : Runs(t) /\ BootstrapReturn(t)
    \/ \E t \in UserThreads : Runs(t) /\ FindNodeReturn(t)
    \/ \E t \in UserThreads : Runs(t) /\ CallDone(t)
    \/ \E t \in UserThreads : Runs(t) /\ IterStart(t)
    \/ \E t \in UserThreads : \E failed \in SUBSET RoundPeers : Runs(t) /\ IterSend(t, failed)
    \/ \E t \in UserThreads : \E w \in Threads : Runs(t) /\ IterCollect(t, w)
    \/ \E t \in UserThreads : Runs(t) /\ IterCollectTimeout(t)
    \/ \E t \in UserThreads : Runs(t) /\ IterDecide(t)
    \/ \E w \in Threads : Runs(w) /\ WorkerResult(w)
    \/ \E w \in Threads : Runs(w) /\ WorkerAdded(w)
    \/ \E w \in Threads : Runs(w) /\ WorkerTimeout(w)
    \/ \E w \in Threads : Runs(w) /\ WorkerOfferClosed(w)
    \/ \E w \in Threads : Runs(w) /\ AddNodeCheck(w)
    \/ \E w \in Threads : Runs(w) /\ AddNodeMark(w)
    \/ \E w \in Threads : Runs(w) /\ AddNodeAppend(w)
    \/ \E m \in net : \E S \in RoundAnswers : PeerAnswers(m, S \ {m.to}, NoValue)
    \/ \E m \in net : PeerAnswersError(m)
    \/ \E m \in net : RequestLost(m)

SpecRounds == InitRounds /\ [][NextRounds]_vars

\* ------------------------------------------------------------------ SpecRefresh: the timer
\* Node A has run for longer than RefreshTime: some of its buckets have not
\* been refreshed since, and its store may hold a value that is ready to
\* replicate. Its routing table is empty or holds one peer, which answers with
\* no closer node or does not answer.
RefreshTables ==
    {[i \in Buckets |-> <<>>],
     [i \in Buckets |-> IF i = 0 THEN <<2 ^ (IDBits - 1)>> ELSE <<>>]}

InitRefresh ==
    \E table \in RefreshTables, due \in SUBSET Buckets, d \in Data \cup {NoValue} :
        /\ due # {} \/ d # NoValue
        /\ rt = [n \in Nodes |-> IF n = "A" THEN table ELSE [i \in Buckets |-> <<>>]]
        /\ htLock = [n \in Nodes |-> NoThread]
        /\ refresh = [n \in Nodes |-> [i \in Buckets |->
                         IF n = "A" /\ i \in due THEN 0 - (RefreshTime + 1) ELSE 0]]
        /\ now = 0
        /\ kv = [n \in Nodes |-> [k \in Keys |->
                    IF n = "A" /\ d # NoValue /\ k = NewKey(d)
                    THEN [StoreEntry(n, d, TRUE) EXCEPT !.at = 0 - ReplicateTime,
                                                        !.replication = 0]
                    ELSE NoEntry]]
        /\ futs = [r \in ReqIDs |-> NoFut]
        /\ net = {}
        /\ an = [t \in Threads |-> NoFrame]
        /\ it = [t \in Threads |-> NoIter]
        /\ wk = [t \in Threads |-> NoWorker]
        /\ dp = [n \in Nodes |-> NoDisp]
        /\ op = [t \in Threads |-> NoOp]
        /\ hist = {}
        /\ calls = 0
        /\ panicked = {}
        /\ alive = {"A"}
        /\ seeds = [n \in Nodes |-> <<>>]
        /\ lp = [n \in Nodes |-> IF n = "A" THEN Listening ELSE NoLoops]

TimerThreads == {TimerThread(n) : n \in Nodes}

NextRefresh ==
    \/ \E n \in Nodes : Running(n) /\ op[TimerThread(n)].pc = "idle" /\ TimerTickIdle(n)
    \/ \E n \in Nodes : Running(n) /\ TickStart(n)
    \/ \E n \in Nodes : Running(n) /\ TickRefresh(n)
    \/ \E n \in Nodes : Running(n) /\ TickRefreshed(n)
    \/ \E n \in Nodes : Running(n) /\ TickReplicate(n)
    \/ \E n \in Nodes : Running(n) /\ TickReplicated(n)
    \/ \E n \in Nodes : Running(n) /\ TickExpire(n)
    \/ \E t \in TimerThreads : Runs(t) /\ IterStart(t)
    \/ \E t \in TimerThreads : Runs(t) /\ IterSend(t, {})
    \/ \E t \in TimerThreads : \E w \in Threads : Runs(t) /\ IterCollect(t, w)
    \/ \E t \in TimerThreads : Runs(t) /\ IterCollectTimeout(t)
    \/ \E t \in TimerThreads : Runs(t) /\ IterDecide(t)
    \/ \E t \in TimerThreads : Runs(t) /\ IterStoreSend(t)
    \/ \E w \in Threads : Runs(w) /\ WorkerResult(w)
    \/ \E w \in Threads : Runs(w) /\ WorkerAdded(w)
    \/ \E w \in Threads : Runs(w) /\ WorkerTimeout(w)
    \/ \E w \in Threads : Runs(w) /\ AddNodeCheck(w)
    \/ \E w \in Threads : Runs(w) /\ AddNodeMark(w)
    \/ \E m \in net : PeerAnswers(m, {}, NoValue)
    \/ \E m \in net : RequestLost(m)
    \/ op[TimerThread("A")].pc = "idle" /\ Advance

SpecRefresh == InitRefresh /\ [][NextRefresh]_vars

\* ------------------------------------------------------------------ SpecListen: start and stop
\* Each node calls Listen and, at any time after it, Disconnect; a peer pings
\* the node, and the dispatcher and the timer run while their loops do.
InitListen ==
    /\ rt = [n \in Nodes |-> [i \in Buckets |-> <<>>]]
    /\ htLock = [n \in Nodes |-> NoThread]
    /\ refresh = [n \in Nodes |-> [i \in Buckets |-> 0]]
    /\ kv = [n \in Nodes |-> [k \in Keys |-> NoEntry]]
    /\ now = 0
    /\ futs = [r \in ReqIDs |-> NoFut]
    /\ net = {}
    /\ an = [t \in Threads |-> NoFrame]
    /\ it = [t \in Threads |-> NoIter]
    /\ wk = [t \in Threads |-> NoWorker]
    /\ dp = [n \in Nodes |-> NoDisp]
    /\ op = [t \in Threads |-> NoOp]
    /\ hist = {}
    /\ calls = 0
    /\ panicked = {}
    /\ alive = Nodes
    /\ seeds = [n \in Nodes |-> <<>>]
    /\ lp = [n \in Nodes |-> NoLoops]

NextListen ==
    \/ \E n \in Nodes : Listen(n)
    \/ \E n \in Nodes : \E l \in LoopNames : RegisterStart(n, l)
    \/ \E n \in Nodes : Disconnect(n)
    \/ \E n \in Nodes : HandleDisconnectStopped(n)
    \/ \E n \in Nodes : \E l \in LoopNames : StopLoop(n, l)
    \/ \E n \in Nodes : HandleDisconnectClose(n)
    \/ \E n \in Nodes : lp[n].tmr = "loop" /\ TimerTickIdle(n)

SpecListen == InitListen /\ [][NextListen]_vars

\* ------------------------------------------------------------------ SpecServe: the dispatcher
\* Node A alone serves the requests of peers of the environment: of every
\* type, from a peer its table holds and from one it does not, addressed to
\* its identity, to its address alone, to its address with the ID of no
\* identity of the node, and to another node altogether.
ServeTables ==
    {[i \in Buckets |-> <<>>],
     [i \in Buckets |-> IF i = 0 THEN <<2 ^ (IDBits - 1), 2 ^ IDBits - 1>>
                        ELSE IF i = 1 THEN <<2 ^ (IDBits - 2), 2 ^ (IDBits - 2) + 1>>
                        ELSE <<>>]}
ServePeers == {2 ^ IDBits - 2, 2 ^ IDBits - 1}
ForeignID == OriginID("A") + 1
ServeReceivers ==
    {<<OriginID("A"), OriginID("A")>>, <<OriginID("A"), NilID>>,
     <<OriginID("A"), ForeignID>>, <<ForeignID, ForeignID>>}
RequestTypes == {"Ping", "FindNode", "FindValue", "Store", "RPC"}

\* the request of type ty the peer p sends to the receiver r = <<address, ID>>
\* under the request ID req of its own transport; it arrives at node A
ServeRequest(p, r, ty, d, req) ==
    [Message(p, r[1], r[2], ty,
             IF ty \in {"FindNode", "FindValue"} THEN NewKey(d) ELSE 0,
             IF ty = "Store" THEN d ELSE NoValue)
        EXCEPT !.at = OriginID("A"), !.req = req]

PeerSends(p, r, ty, d) ==
    /\ calls < ServeCalls
    /\ net' = net \cup {ServeRequest(p, r, ty, d, MaxReq + 1 + calls)}
    /\ calls' = calls + 1
    /\ UNCHANGED <<tableVars, kv, now, futs, procVars, hist, panicked, confVars>>

\* the peer receives the response to its request
PeerReceives(m) ==
    /\ m \in net
    /\ m.isResponse
    /\ ~IsNode(m.at)
    /\ net' = net \ {m}
    /\ UNCHANGED <<tableVars, kv, now, futs, procVars, hist, calls, panicked, confVars>>

\* the store of node A is empty, or holds a value the user has stored
InitServe ==
    \E table \in ServeTables, d \in Data \cup {NoValue} :
        /\ rt = [n \in Nodes |-> IF n = "A" THEN table ELSE [i \in Buckets |-> <<>>]]
        /\ htLock = [n \in Nodes |-> NoThread]
        /\ refresh = [n \in Nodes |-> [i \in Buckets |-> 0]]
        /\ now = 0
        /\ kv = [n \in Nodes |-> [k \in Keys |->
                    IF n = "A" /\ d # NoValue /\ k = NewKey(d) THEN StoreEntry(n, d, TRUE)
                    ELSE NoEntry]]
        /\ futs = [r \in ReqIDs |-> NoFut]
        /\ net = {}
        /\ an = [t \in Threads |-> NoFrame]
        /\ it = [t \in Threads |-> NoIter]
        /\ wk = [t \in Threads |-> NoWorker]
        /\ dp = [n \in Nodes |-> NoDisp]
        /\ op = [t \in Threads |-> NoOp]
        /\ hist = {}
        /\ calls = 0
        /\ panicked = {}
        /\ alive = {"A"}
        /\ seeds = [n \in Nodes |-> <<>>]
        /\ lp = [n \in Nodes |-> IF n = "A" THEN Listening ELSE NoLoops]

NextServe ==
    \/ \E p \in ServePeers, r \in ServeReceivers, ty \in RequestTypes, d \in Data :
           PeerSends(p, r, ty, d)
    \/ \E n \in Nodes : \E m \in net : Running(n) /\ DispReceive(n, m)
    \/ \E n \in Nodes : Running(n) /\ AddNodeStep(DispThread(n))
    \/ \E n \in Nodes : Running(n) /\ DispFinish(n)
    \/ \E m \in net : PeerAnswersPing(m)
    \/ \E m \in net : RequestLost(m)
    \/ \E m \in net : PeerReceives(m)

SpecServe == InitServe /\ [][NextServe]_vars

\* ------------------------------------------------------------------ SpecAdd: callers of addNode
\* The dispatcher and a worker of node A call addNode for any sender
\* (processFindNode, processFindValue, processStore, processRPC; the workers of
\* iterate and Bootstrap; RemoteProcedureCall).
AddCallers == {<<"A", "disp", 0>>, <<"A", "work", 1>>}
AddPeers == IDs \ {OriginID("A"), 1}

CallAddNode(t, id) ==
    /\ an[t].pc = "none"
    /\ calls < MaxCalls
    /\ calls' = calls + 1
    /\ an' = [an EXCEPT ![t] = AddNodeEnter(t, id)]
    /\ UNCHANGED <<tableVars, netVars, kv, now, it, wk, dp, op, hist, panicked, confVars>>

AddNodeReturn(t) ==
    /\ an[t].pc = "done"
    /\ an' = [an EXCEPT ![t] = NoFrame]
    /\ UNCHANGED <<tableVars, netVars, kv, now, it, wk, dp, op, hist, calls, panicked, confVars>>

InitAdd ==
    /\ rt = [n \in Nodes |-> [i \in Buckets |-> <<>>]]
    /\ htLock = [n \in Nodes |-> NoThread]
    /\ an = [t \in Threads |-> NoFrame]
    /\ futs = [r \in ReqIDs |-> NoFut]
    /\ net = {}
    /\ calls = 0
    /\ refresh = [n \in Nodes |-> [i \in Buckets |-> 0]]
    /\ kv = [n \in Nodes |-> [k \in Keys |-> NoEntry]]
    /\ now = 0
    /\ it = [t \in Threads |-> NoIter]
    /\ wk = [t \in Threads |-> NoWorker]
    /\ dp = [n \in Nodes |-> NoDisp]
    /\ op = [t \in Threads |-> NoOp]
    /\ alive = {"A"}
    /\ seeds = [n \in Nodes |-> <<>>]
    /\ lp = [n \in Nodes |-> IF n = "A" THEN Listening ELSE NoLoops]
    /\ hist = {}
    /\ panicked = {}

NextAdd ==
    \/ \E t \in AddCallers, id \in AddPeers : CallAddNode(t, id)
    \/ \E t \in AddCallers : AddNodeStep(t)
    \/ \E t \in AddCallers : AddNodeReturn(t)
    \/ \E m \in net : PeerAnswersPing(m)
    \/ \E m \in net : RequestLost(m)

SpecAdd == InitAdd /\ [][NextAdd]_vars

\* ------------------------------------------------------------------ claims on addNode
\* an activation of addNode that has just returned with the given outcome
Returned(t, outs) == an[t].pc = "done" /\ an[t].out \in outs

\* C1: after any interleaving of add-node calls every bucket of every routing
\* table holds at most K entries.
C1_BucketCapacity ==
    \A n \in Nodes : \A i \in Buckets : Len(rt[n][i]) <= MaxContactsInBucket

\* a call for a new ID found its bucket full and has replaced the head
C1_Witness ==
    \E t \in Threads :
        /\ Returned(t, {"timeout", "sendfail"})
        /\ Len(rt[NodeOf(t)][an[t].idx]) = MaxContactsInBucket

\* C2: IDs are unique within a bucket after any interleaving of concurrent
\* add-node calls on the same routing table.
C2_UniqueIDs ==
    \A n \in Nodes : \A i \in Buckets :
        \A j, k \in 1 .. Len(rt[n][i]) : rt[n][i][j] = rt[n][i][k] => j = k

\* C3: every route node stored in bucket i of the table with origin o has
\* bucket-index(o.ID, r.ID) = i.
C3_BucketIndex ==
    \A n \in Nodes : \A i \in Buckets : \A k \in 1 .. Len(rt[n][i]) :
        GetBucketIndexFromDifferingBit(OriginID(n), rt[n][i][k]) = i

\* nodes have been added to two different buckets of one table
C3_Witness ==
    \E n \in Nodes : \E i, j \in Buckets : i # j /\ rt[n][i] # <<>> /\ rt[n][j] # <<>>

\* C4: when the bucket of a new ID is full and the pinged head h replies in
\* time, then afterwards h is the tail of the bucket, the new node is not in
\* the bucket and the bucket still holds K entries.
C4_ReplyingHeadMovesToTail ==
    [][\A t \in Threads :
          (an[t].pc = "ping" /\ an'[t].pc = "done" /\ an'[t].out = "replied") =>
              LET b == rt'[NodeOf(t)][an[t].idx] IN
              /\ Len(b) = MaxContactsInBucket
              /\ b[Len(b)] = an[t].head
              /\ an[t].id \notin Range(b)]_vars

\* C5: when the bucket of a new ID is full and the ping to the head h fails to
\* send or is not answered in time, then afterwards h is not in the bucket, the
\* new node is the tail, the other K-1 entries keep their order and the bucket
\* holds exactly K entries.
C5_SilentHeadIsEvicted ==
    [][\A t \in Threads :
          (an[t].pc \in {"lock", "ping"} /\ an'[t].pc = "done"
                /\ an'[t].out \in {"timeout", "sendfail"}) =>
              LET b == rt'[NodeOf(t)][an[t].idx] IN
              /\ Len(b) = MaxContactsInBucket
              /\ an'[t].head \notin Range(b)
              /\ b[Len(b)] = an[t].id
              /\ SubSeq(b, 1, Len(b) - 1) = Tail(an'[t].bucket)]_vars

\* the calls of Store that had returned when the call of thread t was made, on
\* the nodes of N, with the key string of the call
StoredBefore(t, N) ==
    {h \in op[t].seen : h.op = "Store" /\ h.node \in N /\ h.str = op[t].arg}

GetHasReturned(t) == op[t].name = "Get" /\ op[t].pc = "ret"

FindNodeHasReturned(t) == op[t].name = "FindNode" /\ op[t].pc = "ret"

\* C6: Store(data) followed by Get(returned-id) on the same node returns
\* (data, true) before expiration, whatever the routing table is and whether
\* or not the timer has ticked in between. (SpecStore)
C6_StoreThenGet ==
    \A t \in UserThreads : \A h \in StoredBefore(t, {NodeOf(t)}) :
        (GetHasReturned(t) /\ now < ExpirationTime)
            => (op[t].exists /\ op[t].value = h.data /\ op[t].err = "")

\* the messages sent so far have been processed
Quiet == net = {} /\ \A n \in Nodes : dp[n] = NoDisp

\* B has A's address, without its ID, as its only seed, and B's Bootstrap has
\* returned
BootstrappedByAddress ==
    /\ seeds["A"] = <<>>
    /\ seeds["B"] = <<[addr |-> OriginID("A"), id |-> NilID]>>
    /\ Outcome("Bootstrap", "B", <<>>, NoValue, FALSE) \in hist

\* C7: in the two-node network where B has A's address (no ID) as its only
\* seed, once B's Bootstrap has returned and the messages sent have been
\* processed, each routing table holds exactly the other node. (SpecNet)
C7_BootstrapNumNodes ==
    (BootstrappedByAddress /\ Quiet)
        => /\ TotalNodes(rt["A"]) = 1 /\ AllEntries(rt["A"], 0) = <<OriginID("B")>>
           /\ TotalNodes(rt["B"]) = 1 /\ AllEntries(rt["B"], 0) = <<OriginID("A")>>

C7_Witness == BootstrappedByAddress /\ Quiet /\ TotalNodes(rt["A"]) = 1

\* the IDs of the nodes other than the one of thread t
OtherIDs(t) == {OriginID(n) : n \in Nodes \ {NodeOf(t)}}

\* C8: after B has bootstrapped against A, FindNode on A with B's ID returns
\* (B, true), and FindNode on B with A's ID returns (A, true). (SpecNet)
C8_FindNodeAfterBootstrap ==
    \A t \in UserThreads :
        (FindNodeHasReturned(t) /\ op[t].boot
            /\ \E id \in OtherIDs(t) : op[t].arg = Base58Encode(IDToBytes(id)))
            => (op[t].exists /\ op[t].node = op[t].key /\ op[t].err = "")

C8_Witness ==
    LET t == UserThread("A") IN
    FindNodeHasReturned(t) /\ op[t].boot /\ op[t].key = OriginID("B") /\ op[t].exists

\* C9: in the two-node network after B has bootstrapped against A, a Get on A
\* of the key a Store on B returned, issued after that Store returned, returns
\* (data, true). (SpecNet)
C9_GetAfterRemoteStore ==
    \A h \in StoredBefore(UserThread("A"), {"B"}) :
        (GetHasReturned(UserThread("A")) /\ h.boot /\ now < ExpirationTime)
            => (op[UserThread("A")].exists /\ op[UserThread("A")].value = h.data)

\* (the value reaches A through its iterative FindValue: the Store message of
\* B has not been processed)
C9_Witness ==
    LET t == UserThread("A") IN
    /\ GetHasReturned(t) /\ op[t].exists
    /\ \E h \in StoredBefore(t, {"B"}) : h.boot
    /\ Retrieve(kv["A"], op[t].key) = NoValue

\* C10: FindNode returns (n, true) only if n.ID equals the target, and a call
\* with the origin's own ID returns the origin at once, without sending a
\* message. (SpecLookup)
C10_FindNodeExact ==
    /\ [](\A t \in UserThreads :
            (FindNodeHasReturned(t) /\ op[t].exists) => op[t].node = op[t].key)
    /\ [][\A t \in UserThreads :
            (op[t].pc = "idle" /\ op'[t].name = "FindNode"
                 /\ op'[t].key = OriginID(NodeOf(t)))
                => (/\ op'[t].pc = "ret" /\ op'[t].exists
                    /\ op'[t].node = OriginID(NodeOf(t))
                    /\ net' = net /\ futs' = futs)]_vars

\* (the node found is not in the routing table: it comes from a peer's answer)
C10_Witness ==
    LET t == UserThread("A") IN
    /\ FindNodeHasReturned(t) /\ op[t].exists
    /\ op[t].node \notin Range(AllEntries(rt["A"], 0))
    /\ op[t].node # OriginID("A")

\* ------------------------------------------------------------------ claims on the interface
\* C11: Get and FindNode called with a key string whose decoded length is not
\* the key length return an error and have no other effect: no message is
\* sent, the local store and the routing table are unchanged, and no iteration
\* or add-node starts. (SpecNet)
C11_InvalidKeyRejected ==
    [][\A t \in UserThreads :
          (op[t].pc = "idle" /\ op'[t].name \in {"Get", "FindNode"}
                /\ Len(Base58Decode(op'[t].arg)) # KeyBytes)
              => (/\ op'[t].pc = "ret" /\ op'[t].err = "invalid key"
                  /\ ~op'[t].exists /\ op'[t].value = NoValue /\ op'[t].node = NilID
                  /\ net' = net /\ futs' = futs /\ kv' = kv /\ rt' = rt
                  /\ refresh' = refresh /\ it' = it /\ an' = an /\ wk' = wk)]_vars

\* (the call is made on a node that knows a peer and holds a value)
C11_Witness ==
    \E t \in UserThreads :
        /\ op[t].pc = "ret" /\ op[t].err = "invalid key"
        /\ Len(Base58Decode(op[t].arg)) > KeyBytes
        /\ TotalNodes(rt[NodeOf(t)]) > 0
        /\ \E k \in Keys : Retrieve(kv[NodeOf(t)], k) # NoValue

\* C12: a RemoteProcedureCall whose RPC message has been sent returns exactly one
\* outcome. The wait ends when the response is there (the sender is added, and
\* the call then returns the result if the procedure succeeded and its error
\* otherwise), when the future is closed without a message (the channel-closed
\* error), or on the timeout (the timeout error); on the timeout the future is
\* cancelled before the call returns, and neither the routing table nor an
\* add-node is touched. (SpecRpc)
C12_RpcOutcome ==
    [][\A t \in UserThreads :
          /\ (op[t].pc = "rpcwait" /\ op'[t].pc # "rpcwait") =>
                LET f == futs[op[t].req] IN
                \/ /\ f.st = "resolved"
                   /\ op'[t].pc = "rpcadd" /\ op'[t].rsp = f.resp
                   /\ an'[t] = AddNodeEnter(t, f.resp.sender)
                \/ /\ f.st = "closed"
                   /\ op'[t].pc = "rpcret" /\ op'[t].err = "chanel closed unexpectedly"
                   /\ op'[t].value = NoValue /\ rt' = rt
                \/ /\ op'[t].pc = "rpcret" /\ op'[t].err = "timeout"
                   /\ op'[t].value = NoValue
                   /\ futs'[op[t].req] = NoFut
                   /\ rt' = rt /\ an' = an
          /\ (op[t].pc = "rpcadd" /\ op'[t].pc # "rpcadd") =>
                /\ op'[t].pc = "rpcret"
                /\ IF op[t].rsp.err THEN op'[t].value = NoValue /\ op'[t].err = "handler"
                   ELSE op'[t].value = op[t].rsp.value /\ op'[t].err = ""]_vars

\* (the call has timed out, and the request has not been answered yet)
C12_Witness ==
    \E t \in UserThreads :
        /\ op[t].pc = "rpcret" /\ op[t].err = "timeout"
        /\ \E m \in net : m.type = "RPC" /\ m.req = op[t].req

\* ------------------------------------------------------------------ claims on the store
\* C13: the expiration deadline computed for a key at storage time is never
\* earlier than now + ExpirationTime: the 64-bit duration getExpirationTime adds
\* to the clock is not negative and not below ExpirationTime. (SpecStore)
C13_DeadlineNotEarlier ==
    \A n \in Nodes : \A k \in Keys :
        kv[n][k].value # NoValue
            => /\ ~IsNegative64(kv[n][k].dur)
               /\ LessEq64(Nanoseconds(ExpirationTime), kv[n][k].dur)

\* ------------------------------------------------------------------ claims on the loops
\* the scheduler runs every goroutine that can take a step, and a select takes
\* a case that stays ready
FairListen ==
    \A n \in Nodes :
        /\ WF_vars(HandleDisconnectStopped(n))
        /\ WF_vars(HandleDisconnectClose(n))
        /\ \A l \in LoopNames : WF_vars(RegisterStart(n, l)) /\ WF_vars(StopLoop(n, l))

SpecListenFair == SpecListen /\ FairListen

\* C14: once the transport of a node that listens signals stopped, both
\* background loops eventually return and the transport is closed, also when
\* the stop arrives before a loop has registered its start. (SpecListenFair)
C14_LoopsTerminate ==
    \A n \in Nodes :
        (lp[n].tr = "stopped")
            ~> (lp[n].tr = "closed" /\ lp[n].msgs = "done" /\ lp[n].tmr = "done")

\* ------------------------------------------------------------------ claims on iterate
\* the scheduler runs every goroutine that can take a step, timers fire, and a
\* request does not stay in the network for ever
SpecIterateFair == SpecIterate /\ WF_vars(IterateSteps) /\ WF_vars(IteratePeers)

\* C15: an iterative lookup terminates: for every pattern of responses, error
\* responses, send failures and timeouts, an iteration that has started
\* returns. (SpecIterateFair)
C15_IterateReturns ==
    \A t \in UserThreads : (it[t].pc = "start") ~> (it[t].pc = "ret")

\* ------------------------------------------------------------------ claims on the dispatcher
\* the dispatcher of node n takes the request m off the network
Taken(n, m) == m \in net /\ m.at = OriginID(n) /\ ~m.isResponse /\ m \notin net'

\* the responses of node n to the request m that this step sends
Answers(n, m) ==
    {r \in net' \ net : r.isResponse /\ r.req = m.req /\ r.from = OriginID(n)
                        /\ r.to = m.from /\ r.type = m.type}

\* C16: an inbound message whose receiver is not one of the node's identities
\* (another node's address and ID, or the node's address with a receiver ID
\* that matches no local identity) is dropped: no handler runs, no response is
\* sent, the routing table and the store are unchanged, and the dispatcher goes
\* on with later messages.
C16_ForeignMessageDropped ==
    [][\A n \in Nodes : \A m \in net :
          (Taken(n, m) /\ m.toId \notin {NilID, OriginID(n)})
              => /\ net' = net \ {m}
                 /\ futs' = futs /\ rt' = rt /\ kv' = kv
                 /\ an' = an /\ dp' = dp
                 /\ panicked' = panicked]_vars

\* C17: the handlers of FindNode, FindValue, Store and RPC first add the
\* sender to the routing table, and nothing else happens before addNode has
\* returned; the handler of Ping only replies: one response with the request
\* ID of the Ping is sent, and the routing tables and the store are unchanged.
C17_SenderAddedFirst ==
    /\ [][\A n \in Nodes : \A m \in net :
             (Taken(n, m) /\ IsForMe(m, n) /\ HasIdentity(n, m.toId))
                 => IF m.type = "Ping"
                    THEN /\ Cardinality(Answers(n, m)) = 1
                         /\ net' \ net = Answers(n, m)
                         /\ rt' = rt /\ kv' = kv /\ an' = an /\ dp' = dp
                    ELSE /\ an'[DispThread(n)] = AddNodeEnter(DispThread(n), m.from)
                         /\ dp'[n] = [pc |-> "add", msg |-> m]
                         /\ net' = net \ {m}
                         /\ rt' = rt /\ kv' = kv /\ futs' = futs]_vars
    /\ [][\A n \in Nodes :
             (dp[n].pc = "add" /\ (kv'[n] # kv[n] \/ dp'[n].pc # "add"
                                     \/ \E r \in net' \ net : r.isResponse))
                 => /\ an[DispThread(n)].pc = "done"
                    /\ an[DispThread(n)].id = dp[n].msg.from]_vars

\* the sender of an RPC request was appended to the table before the response,
\* and a Ping of a peer the table does not hold has been answered
C17_Witness ==
    \E n \in Nodes :
        /\ \E r \in net : r.isResponse /\ r.type = "RPC" /\ r.to \in Range(rt[n][0])
        /\ \E r \in net : r.isResponse /\ r.type = "Ping" /\ r.to \notin Range(rt[n][0])

\* C18: the response to a FindNode, and to a FindValue for a key the local
\* store does not hold, lists at most K nodes and never the requester, which
\* has just been added to the table; a FindValue for a key the store holds is
\* answered with the value and an empty list.
C18_ClosestWithoutSender ==
    /\ [](\A r \in net :
             (r.isResponse /\ r.type \in {"FindNode", "FindValue"})
                 => /\ Len(r.closest) <= MaxContactsInBucket
                    /\ r.to \notin Range(r.closest)
                    /\ r.data # NoValue => r.closest = <<>>)
    /\ [][\A n \in Nodes :
             (dp[n].pc = "add" /\ dp'[n].pc = "idle"
                 /\ dp[n].msg.type \in {"FindNode", "FindValue"})
                 => \E r \in Answers(n, dp[n].msg) :
                        IF dp[n].msg.type = "FindValue"
                               /\ Retrieve(kv[n], dp[n].msg.target) # NoValue
                        THEN r.data = Retrieve(kv[n], dp[n].msg.target) /\ r.closest = <<>>
                        ELSE /\ r.data = NoValue
                             /\ r.closest = GetClosestContacts(rt[n], MaxContactsInBucket,
                                                               dp[n].msg.target,
                                                               {dp[n].msg.from})]_vars

\* a requester the table holds gets K other nodes, and a FindValue got the value
C18_Witness ==
    \E n \in Nodes :
        /\ \E r \in net : /\ r.isResponse /\ r.type = "FindNode"
                          /\ Len(r.closest) = MaxContactsInBucket
                          /\ \E i \in Buckets : r.to \in Range(rt[n][i])
        /\ \E r \in net : r.isResponse /\ r.type = "FindValue" /\ r.data # NoValue

\* ------------------------------------------------------------------ claims on the failures of an iteration
\* C19: a peer whose request timed out within an iteration is removed from the
\* route set: it is not in the route set the next round or the Store phase
\* starts from, and not in the node list the iteration returns.
C19_TimedOutPeerRemoved ==
    \A t \in Threads :
        it[t].pc \in {"send", "store", "ret"}
            => /\ Range(it[t].routeSet) \cap it[t].timedOut = {}
               /\ Range(it[t].closest) \cap it[t].timedOut = {}

\* C20: a send failure within an iteration is not fatal: a round whose sends
\* fail removes the peers from the route set and the iteration goes on, and
\* the Store phase ends with the return of (nil, nil), the process running.
C20_SendFailureNotFatal ==
    [][\A t \in Threads :
          /\ (it[t].pc = "send" /\ it'[t].pc # "send")
                 => /\ it'[t].pc \in {"collect", "decide"}
                    /\ Range(it'[t].routeSet) \cap it'[t].remove = {}
                    /\ panicked' = panicked
          /\ (it[t].pc = "store" /\ it'[t].pc # "store")
                 => /\ it'[t].pc = "ret"
                    /\ it'[t].value = NoValue /\ it'[t].closest = <<>>
                    /\ panicked' = panicked]_vars

\* ------------------------------------------------------------------ claims on the rounds
\* C21: within one call of iterate no node is sent two requests, over all
\* rounds, the queryRest round included, and also when a node was removed from
\* the route set and a peer's closest list has merged it back.
C21_NoNodeContactedTwice ==
    \A t \in Threads :
        \A i, j \in 1 .. Len(it[t].asked) : it[t].asked[i] = it[t].asked[j] => i = j

\* a later round has sent requests while the route set holds a node that was
\* asked before, and a node of which a send has failed was merged back
C21_Witness ==
    \E t \in Threads :
        /\ it[t].pc = "collect"
        /\ it[t].futuresCount > 0
        /\ Len(it[t].asked) > it[t].futuresCount
        /\ \E x \in Range(it[t].routeSet) :
               \E i \in 1 .. (Len(it[t].asked) - it[t].futuresCount) : it[t].asked[i] = x
        /\ it[t].remove # {}

\* C22: a round with queryRest false sends min(alpha, number of uncontacted
\* nodes of the route set) requests, and a queryRest round sends a request to
\* every uncontacted node of the route set.
C22_RoundSelection ==
    [][\A t \in Threads :
          (it[t].pc = "send" /\ it'[t].pc # "send")
              => LET uncontacted == Range(it[t].routeSet) \ it[t].contacted
                     selected == it'[t].contacted \ it[t].contacted
                 IN  IF it[t].queryRest THEN selected = uncontacted
                     ELSE Cardinality(selected)
                              = IF Cardinality(uncontacted) < ParallelCalls
                                THEN Cardinality(uncontacted) ELSE ParallelCalls]_vars

\* C23: a round decides progress only after every response a worker of the
\* round has received before its own timeout is among the round's results.
C23_DecisionAfterResponses ==
    [][\A t \in Threads :
          (it[t].pc = "collect" /\ it'[t].pc = "decide")
              => \A w \in Threads :
                     (/\ wk[w].parent = t /\ wk[w].kind = "iter" /\ ~wk[w].closed
                      /\ wk[w].pc \in {"add", "offer"})
                         => /\ wk'[w] = NoWorker
                            /\ wk[w].resp \in Range(it'[t].results)]_vars

\* C24: the result of a worker that comes to deliver it after the collector
\* has closed the result channel of its round is discarded: the process does
\* not fail, the worker ends, and the iteration is not changed.
C24_LateResultDiscarded ==
    [][\A w \in Threads :
          (wk[w].pc = "offer" /\ wk[w].closed /\ wk'[w] # wk[w])
              => /\ wk'[w] = NoWorker
                 /\ it' = it
                 /\ panicked' = panicked]_vars

\* ------------------------------------------------------------------ claims on the timer
\* C25: the iterative Bootstrap the timer runs for a bucket i that was idle
\* for longer than RefreshTime has a target that falls in bucket i, and, the
\* routing table not being empty, it resets the refresh time of bucket i: the
\* bucket is not due again before another RefreshTime has elapsed.
C25_RefreshResetsBucket ==
    [][\A n \in Nodes :
          LET t == TimerThread(n) IN
          (op[t].name = "tick" /\ op[t].pc = "refreshing"
              /\ it[t].pc = "start" /\ it'[t].pc = "send")
              => /\ GetBucketIndexFromDifferingBit(it[t].target, OriginID(n)) = op[t].i
                 /\ refresh'[n][op[t].i] = now
                 /\ op[t].i \notin {i \in Buckets : now - refresh'[n][i] > RefreshTime}]_vars

\* ------------------------------------------------------------------ claims on the futures
\* the caller that waits for the result of the future r
Waiters(r) ==
    {t \in Threads : \/ an[t].pc = "ping" /\ an[t].req = r
                     \/ wk[t].pc = "wait" /\ wk[t].req = r
                     \/ op[t].pc = "rpcwait" /\ op[t].req = r}

\* C26: every future ends with its result received or with its cancellation:
\* a future that is still in the registry has the caller that waits for it,
\* and a caller whose wait times out cancels the future.
C26_FutureReceivedOrCancelled ==
    \A r \in ReqIDs : futs[r].st # "free" => Cardinality(Waiters(r)) = 1

\* ------------------------------------------------------------------ claims on the bucket index
\* C27: the bucket index is never computed for two equal IDs: addNode is not
\* entered for the origin's ID, no key that is stored is the origin's ID, and
\* the target of an iterative Bootstrap that resets a refresh time is not the
\* origin's ID.
C27_BucketIndexOfDistinctIDs ==
    [][\A t \in Threads :
          LET n == NodeOf(t) IN
          /\ (an[t].pc = "none" /\ an'[t].pc # "none") => an'[t].id # OriginID(n)
          /\ \A k \in Keys :
                 (kv'[n][k] # kv[n][k] /\ kv'[n][k].value # NoValue) => k # OriginID(n)
          /\ (it[t].type = "Bootstrap" /\ it[t].pc = "start" /\ it'[t].pc = "send")
                 => it[t].target # OriginID(n)]_vars

\* ------------------------------------------------------------------ claims on the size of the table
\* C28: a node leaves a routing table only as the head of a full bucket that
\* addNode evicts, in the step that appends the new node to the same bucket;
\* the number of nodes of a table never decreases, and the timeouts, error
\* responses and send failures of an iteration remove nothing.
C28_NumNodesNeverDecreases ==
    [][\A n \in Nodes :
          /\ TotalNodes(rt'[n]) >= TotalNodes(rt[n])
          /\ \A i \in Buckets :
                 \A x \in Range(rt[n][i]) \ Range(rt'[n][i]) :
                     /\ x = rt[n][i][1]
                     /\ \E t \in Threads :
                            /\ NodeOf(t) = n
                            /\ an[t].pc \in {"lock", "ping"} /\ an'[t].pc = "done"
                            /\ an'[t].out \in {"timeout", "sendfail"}
                            /\ an[t].idx = i
                            /\ rt'[n][i][Len(rt'[n][i])] = an[t].id]_vars

\* a head was evicted within an iteration in which a send has failed
C28_Witness ==
    \E t \in Threads :
        /\ an[t].pc = "done" /\ an[t].out = "timeout"
        /\ \A i \in Buckets : an[t].head \notin Range(rt[NodeOf(t)][i])
        /\ \E u \in Threads : it[u].remove # {} /\ NodeOf(u) = NodeOf(t)

\* ------------------------------------------------------------------ claims on the route set
\* C29: the step that sorts the route set and compares its first node with the
\* closest node never finds the route set empty, also in the round of a
\* Bootstrap that queries the rest after peers were removed.
C29_FirstNodeOfNonEmptyRouteSet ==
    [][\A t \in Threads :
          it[t].pc = "decide" /\ it'[t].pc # "decide" =>
              LET p == ProcessResults(it[t].routeSet, it[t].results, it[t].type,
                                      it[t].target)
              IN  /\ it'[t].pc # "panic"
                  /\ ~p.done /\ it[t].queryRest => p.routeSet # <<>>]_vars

\* the round of a Bootstrap that queries the rest is about to be decided, in an
\* iteration in which a send has failed and in which a peer that was asked has
\* left the route set again, which only an error response does
C29_Witness ==
    \E t \in Threads :
        /\ it[t].pc = "decide" /\ it[t].type = "Bootstrap" /\ it[t].queryRest
        /\ it[t].remove # {}
        /\ \E id \in Range(it[t].asked) :
               id \notin Range(it[t].routeSet) /\ id \notin it[t].remove

====
